---- MODULE Spec2Model ----
(***************************************************************************)
(* Model of devbox's resource transition orchestrators, each run against   *)
(* an EC2 control plane whose every call and every wait can succeed or     *)
(* fail:                                                                   *)
(*   Spec      resizeInstance / resizeSpotInstance (cmd/resize.go)         *)
(*   MoveSpec  volumeMove (cmd/volume.go)                                  *)
(*   StartSpec startInstances / restartInstances (cmd/start.go, restart.go)*)
(*   PollSpec  PollVolumeState, pollSnapshotState (awsutil, cmd/volume.go) *)
(*   RecoverSpec recoverInstance (cmd/recover.go), which ends in resize    *)
(*   FairSpec  any one of the commands, each call of which returns         *)
(*   CancelSpec resize, move or a poll, whose context may be cancelled in  *)
(*             a wait                                                      *)
(*   SearchSpec runSearch (cmd/search.go) over awsutil.FetchInstanceTypes  *)
(*             and awsutil.FetchSpotPrices                                 *)
(*   DiscoverySpec a search or a recover                                   *)
(*   RebidSpec rebid (cmd/resize.go)                                       *)
(*   ResolveSpec resolveVolume (cmd/volume.go)                             *)
(* One command runs per behaviour; the variables of the other commands     *)
(* stay idle.                                                              *)
(***************************************************************************)
EXTENDS Integers, Sequences, FiniteSets, TLC

\* ------------------------------------------------------------------ bounds
\* number of non-root EBS volumes that may be attached to the original
MaxVols == 2

\* ------------------------------------------------------- the cloud's values
Profiles == {"small", "large"}
InstanceStates == {"pending", "running", "stopping", "stopped", "shutting-down", "terminated"}
Insts == {"orig", "new"}
\* volume 0 is the root volume, 1..MaxVols the data volumes
Vols == 0..MaxVols
DataVols == 1..MaxVols
\* device 0 is the instance's RootDeviceName, 1..MaxVols the other device paths
Devices == 0..MaxVols
RootDeviceName == 0
NoAtt == [inst |-> "none", dev |-> 0]
\* what DescribeInstanceAttribute(userData) may hold for the original
UserDataKinds == {"none", "other", "stale", "good"}
SpotPrices == {"unset", "bid"}

VARIABLES
    \* ---- the control plane (EC2 / Route53)
    instState,    \* instance -> lifecycle state, or "absent"
    instType,     \* instance -> profile
    sir,          \* instance -> state of its spot request: "none", "active", "cancelled"
    sirPrice,     \* SpotPrice of the original's spot request
    volState,     \* volume -> "in-use", "available", "detaching", "attaching", "deleted"
    volAtt,       \* volume -> [inst, dev] attachment (NoAtt when unattached)
    storedUD,     \* the original's stored user_data
    newLaunch,    \* the RunInstancesInput the replacement was launched with
    newUD,        \* user_data pushed onto the replacement by ModifyInstanceAttribute
    dns,          \* instance the A record points at
    \* ---- the invocation resizeInstance(instanceID, newType)
    newType,      \* the requested profile
    pc,           \* position in resizeInstance / resizeSpotInstance
    state,        \* inst.State.Name as read by DescribeInstances
    currentType,  \* inst.InstanceType as read by DescribeInstances
    spotReqId,    \* inst.SpotInstanceRequestId != nil
    userData,     \* local userData
    maxPrice,     \* local maxPrice
    extraVolumes, \* local extraVolumes: sequence of [VolumeID, Device]
    idx,          \* index of the range loop in progress
    result,       \* "none" while running, then "ok" (nil) or "err"
    \* ---- history
    trace,        \* every mutating call issued and every wait, in order
    fails,        \* the steps that failed so far
    pre,          \* the original as it was before the invocation
    \* ---- the command running and the caller's context
    cmd,          \* "resize", "move", "start", "restart", "poll", "recover", "search", "rebid", "resolve"
    cancelled,    \* ctx.Done() has fired
    \* ---- volumeMove(volumeRef, targetRegion, targetAZ, cleanup)
    srcVolume,    \* the source volume as the source region holds it
    snaps,        \* snapshot ("src", "dst") -> "absent", "pending", "completed", "error", "deleted"
    newVol,       \* the volume created in the target region
    moveArgs,     \* the arguments [targetRegion, targetAZ, cleanup]
    srcVol,       \* local srcVol: the source volume as DescribeVolumes returned it
    \* ---- startInstances(ids), restartInstances(ids)
    ids,          \* the instances named on the command line
    attempts,     \* the loop counter
    startErrs,    \* what each StartInstances call of the loop returned, in order
    clock,        \* time.Now(), in seconds since the command began
    \* ---- PollVolumeState / pollSnapshotState(id, desiredState, interval, timeout)
    pollArgs,     \* the arguments, and which of the two functions runs
    deadline,     \* local deadline
    observed,     \* what each Describe query of the loop returned, and when it was issued
    pollErr,      \* the error returned: the values its message carries
    \* ---- recoverInstance(instanceID, minVCPUFlag, minMemFlag, maxPriceFlag, autoYes)
    instAZ,       \* inst.Placement.AvailabilityZone of the original
    history,      \* the region's spot price history: offers [itype, az, price, ts]
    recArgs,      \* the arguments [minVCPUFlag, minMemFlag, maxPriceFlag, autoYes]
    az,           \* local az
    candidates,   \* local candidates: the instance types that match the specs
    results,      \* local results: the offers FetchSpotPrices returned, then filtered
    displayed,    \* the rows printed, in order
    chosen,       \* results[0] when it is suggested or handed to resizeInstance
    \* ---- runSearch(args, minVCPU, minMem, maxPrice, arch, gpu, az, sortBy, limit)
    searchArgs,   \* the arguments
    arrival,      \* the price observations in the order the pages deliver them
    latest,       \* local latest of FetchSpotPrices: the observation kept per (type, zone)
    pos,          \* the next observation of arrival to be delivered
    \* ---- rebid(spotRequestID, newPrice)
    rebidArgs,    \* the arguments [id, newPrice]
    requests,     \* the spot requests of the account: id -> [state, price, type, spec]
    old,          \* local old: the request as DescribeSpotInstanceRequests returned it
    \* ---- resolveVolume(nameOrID)
    nameOrID,     \* the argument, as its characters
    nameTags,     \* the Name tag of each volume of the region, <<>> when it has none
    resolved      \* the volume id returned, <<>> with an error

cloud == <<instState, instType, sir, sirPrice, volState, volAtt, storedUD, newLaunch, newUD, dns>>
locals == <<newType, state, currentType, spotReqId, userData, maxPrice, extraVolumes, idx>>
moveVars == <<srcVolume, snaps, newVol, moveArgs, srcVol>>
startVars == <<ids, attempts, startErrs, clock>>
pollVars == <<pollArgs, deadline, observed, pollErr>>
recoverVars == <<instAZ, history, recArgs, az, candidates, results, displayed, chosen>>
searchVars == <<searchArgs, arrival, latest, pos>>
rebidVars == <<rebidArgs, requests, old>>
resolveVars == <<nameOrID, nameTags, resolved>>
\* what a step of resize leaves alone
others == <<cmd, cancelled, resolveVars, rebidVars, searchVars, moveVars, startVars, pollVars, recoverVars>>
vars == <<instState, instType, sir, sirPrice, volState, volAtt, storedUD, newLaunch, newUD, dns,
          newType, pc, state, currentType, spotReqId, userData, maxPrice, extraVolumes, idx,
          result, trace, fails, pre, cmd, cancelled,
          srcVolume, snaps, newVol, moveArgs, srcVol,
          ids, attempts, startErrs, clock,
          pollArgs, deadline, observed, pollErr,
          instAZ, history, recArgs, az, candidates, results, displayed, chosen,
          searchArgs, arrival, latest, pos,
          rebidArgs, requests, old,
          nameOrID, nameTags, resolved>>

\* ------------------------------------------------------------------ helpers
Injective(f) == \A a, b \in DOMAIN f : f[a] = f[b] => a = b

RECURSIVE SetToSeq(_)
\* a set of numbers as the ascending sequence (the order of BlockDeviceMappings)
SetToSeq(S) ==
    IF S = {} THEN <<>>
    ELSE LET m == CHOOSE x \in S : \A y \in S : x <= y
         IN <<m>> \o SetToSeq(S \ {m})

\* inst.BlockDeviceMappings of the original: one entry per attached volume
BlockDeviceMappings ==
    LET att == {v \in Vols : volAtt[v].inst = "orig"}
        s == SetToSeq(att)
    IN [k \in 1..Len(s) |-> [VolumeID |-> s[k], Device |-> volAtt[s[k]].dev]]

\* the original's attached volumes with their device paths
AttachedTo(i) == {<<v, volAtt[v].dev>> : v \in {w \in Vols : volAtt[w].inst = i}}

Snapshot == [state |-> instState["orig"], type |-> instType["orig"], sir |-> sir["orig"],
             vols |-> AttachedTo("orig")]

\* a trace entry: the call or wait, the instance and the volume it names (vol -1
\* when it names none), the device path of an attach, and whether it succeeded
Entry(op, inst, vol, dev, ok) == [op |-> op, inst |-> inst, vol |-> vol, dev |-> dev, ok |-> ok]
Log(op, inst, vol, dev, ok) == trace' = Append(trace, Entry(op, inst, vol, dev, ok))

MutatingOps == {"StopInstances", "StartInstances", "TerminateInstances", "RunInstances",
                "ModifyInstanceType", "ModifyUserData", "CancelSpotInstanceRequests",
                "DetachVolume", "AttachVolume", "ChangeResourceRecordSets"}
WaitOps == {"WaitStopped", "WaitRunning", "WaitTerminated", "PollVolumeState"}

\* the outcomes of a call or wait made with ctx: once ctx is cancelled every
\* call returns the context's error
CallOutcomes == IF cancelled THEN {FALSE} ELSE BOOLEAN

\* no volume move is running
NoVolume == [exists |-> FALSE, id |-> "none", size |-> 0, type |-> "none", iops |-> 0, throughput |-> 0,
             tags |-> {}, state |-> "none"]
MoveIdle ==
    /\ srcVolume = NoVolume
    /\ snaps = [k \in {"src", "dst"} |-> "absent"]
    /\ newVol = [NoVolume EXCEPT !.state = "absent"] @@ [az |-> "none", snapshot |-> "none"]
    /\ moveArgs = [targetRegion |-> "none", targetAZ |-> "none", cleanup |-> FALSE]
    /\ srcVol = NoVolume

\* no start or restart is running
StartIdle ==
    /\ ids = {}
    /\ attempts = 0
    /\ startErrs = <<>>
    /\ clock = 0

\* no poll is running on its own
NoErr == [kind |-> "none"]
PollIdle ==
    /\ pollArgs = [kind |-> "none", id |-> "none", desired |-> "none", interval |-> 0, timeout |-> 0]
    /\ deadline = 0
    /\ observed = <<>>
    /\ pollErr = NoErr
\* no recover is running
NoOffer == [itype |-> "none", az |-> "none", price |-> 0]
RecoverIdle ==
    /\ instAZ = "none"
    /\ history = {}
    /\ recArgs = [minVCPUFlag |-> 0, minMemFlag |-> 0, maxPriceFlag |-> 0, autoYes |-> FALSE]
    /\ az = "none"
    /\ candidates = {}
    /\ results = {}
    /\ displayed = <<>>
    /\ chosen = NoOffer

\* no search is running
NoSearch == [types |-> {}, arch |-> "none", minVCPU |-> 0, minMem |-> 0, gpu |-> FALSE,
             maxPrice |-> 0, az |-> "", sortBy |-> "price", limit |-> 0]
SearchIdle ==
    /\ searchArgs = NoSearch
    /\ arrival = <<>>
    /\ latest = {}
    /\ pos = 1

\* the spot requests a rebid may meet or make
ReqIds == {"sir-old", "sir-new"}
NoRequest == [state |-> "absent", price |-> "", type |-> "none",
              spec |-> [imageId |-> "none", instanceType |-> "none", userData |-> ""]]
\* no rebid is running
RebidIdle ==
    /\ rebidArgs = [id |-> "none", newPrice |-> ""]
    /\ requests = [r \in ReqIds |-> NoRequest]
    /\ old = NoRequest

\* the volume ids of the region, as their characters
VolumeIds == {<<"v", "o", "l", "-", "1">>, <<"v", "o", "l", "-", "2">>, <<"v", "o", "l", "-", "3">>}
\* no volume is being resolved
ResolveIdle ==
    /\ nameOrID = <<>>
    /\ nameTags = [v \in VolumeIds |-> <<>>]
    /\ resolved = <<>>

\* no resize is running
ResizeIdle ==
    /\ instState = [i \in Insts |-> "absent"]
    /\ instType = [i \in Insts |-> "none"]
    /\ sir = [i \in Insts |-> "none"]
    /\ sirPrice = "unset"
    /\ volState = [v \in Vols |-> "available"]
    /\ volAtt = [v \in Vols |-> NoAtt]
    /\ storedUD = "none"
    /\ newLaunch = [type |-> "none", userData |-> "none", maxPrice |-> "none"]
    /\ newUD = "none"
    /\ dns = "orig"
    /\ newType = "small"
    /\ state = "none"
    /\ currentType = "none"
    /\ spotReqId = FALSE
    /\ userData = ""
    /\ maxPrice = "none"
    /\ extraVolumes = <<>>
    /\ idx = 1
    /\ pre = Snapshot

\* return fmt.Errorf(...)
ReturnErr(step) ==
    /\ pc' = "Done"
    /\ result' = "err"
    /\ fails' = fails \cup {step}

\* return nil
ReturnOk ==
    /\ pc' = "Done"
    /\ result' = "ok"

\* ------------------------------------------------------------------- Init
Init ==
    /\ \E s \in InstanceStates \cup {"absent"} :
          instState = [i \in Insts |-> IF i = "orig" THEN s ELSE "absent"]
    /\ \E t \in Profiles : instType = [i \in Insts |-> IF i = "orig" THEN t ELSE "none"]
    /\ \E r \in {"none", "active"} : sir = [i \in Insts |-> IF i = "orig" THEN r ELSE "none"]
    /\ sirPrice \in SpotPrices
    /\ \E A \in SUBSET DataVols : \E d \in [A -> DataVols] :
          /\ Injective(d)
          /\ volAtt = [v \in Vols |->
                         IF v = 0 THEN [inst |-> "orig", dev |-> RootDeviceName]
                         ELSE IF v \in A THEN [inst |-> "orig", dev |-> d[v]]
                         ELSE NoAtt]
          /\ volState = [v \in Vols |-> IF v = 0 \/ v \in A THEN "in-use" ELSE "available"]
    /\ storedUD \in UserDataKinds
    /\ newLaunch = [type |-> "none", userData |-> "none", maxPrice |-> "none"]
    /\ newUD = "none"
    /\ dns = "orig"
    /\ newType \in Profiles
    /\ pc = "Describe"
    /\ state = "none"
    /\ currentType = "none"
    /\ spotReqId = FALSE
    /\ userData = ""
    /\ maxPrice = "none"
    /\ extraVolumes = <<>>
    /\ idx = 1
    /\ result = "none"
    /\ trace = <<>>
    /\ fails = {}
    /\ pre = Snapshot
    /\ cmd = "resize"
    /\ cancelled = FALSE
    /\ MoveIdle
    /\ StartIdle
    /\ PollIdle
    /\ RecoverIdle
    /\ SearchIdle
    /\ RebidIdle
    /\ ResolveIdle

\* the entry without the same-type early return
DescribeInstanceNoSameTypeCheck ==
    /\ pc = "Describe"
    /\ UNCHANGED others
    /\ UNCHANGED <<cloud, newType, userData, maxPrice, extraVolumes, idx, trace, pre>>
    /\ \/ /\ ReturnErr("DescribeInstances")
          /\ UNCHANGED <<state, currentType, spotReqId>>
       \/ /\ instState["orig"] = "absent"
          /\ ReturnErr("NotFound")
          /\ UNCHANGED <<state, currentType, spotReqId>>
       \/ /\ instState["orig"] # "absent"
          /\ state' = instState["orig"]
          /\ currentType' = instType["orig"]
          /\ spotReqId' = (sir["orig"] # "none")
          /\ pc' = IF sir["orig"] # "none" THEN "SpotCheckState" ELSE "CheckState"
          /\ UNCHANGED <<result, fails>>

\* the entry without the spot branch: every instance takes the in-place path
DescribeInstanceNoSpotBranch ==
    /\ pc = "Describe"
    /\ UNCHANGED others
    /\ UNCHANGED <<cloud, newType, userData, maxPrice, extraVolumes, idx, trace, pre>>
    /\ \/ /\ ReturnErr("DescribeInstances")
          /\ UNCHANGED <<state, currentType, spotReqId>>
       \/ /\ instState["orig"] = "absent"
          /\ ReturnErr("NotFound")
          /\ UNCHANGED <<state, currentType, spotReqId>>
       \/ /\ instState["orig"] # "absent"
          /\ state' = instState["orig"]
          /\ currentType' = instType["orig"]
          /\ spotReqId' = (sir["orig"] # "none")
          /\ UNCHANGED fails
          /\ IF instType["orig"] = newType
             THEN ReturnOk
             ELSE pc' = "CheckState" /\ UNCHANGED result

\* ------------------------------------------------- resizeInstance (entry)
\* DescribeInstances, the not-found check, the same-type check and the
\* spot / on-demand branch
DescribeInstance ==
    /\ pc = "Describe"
    /\ UNCHANGED others
    /\ UNCHANGED <<cloud, newType, userData, maxPrice, extraVolumes, idx, trace, pre>>
    /\ \/ \* the describe call fails
          /\ ReturnErr("DescribeInstances")
          /\ UNCHANGED <<state, currentType, spotReqId>>
       \/ /\ instState["orig"] = "absent"
          /\ ReturnErr("NotFound")
          /\ UNCHANGED <<state, currentType, spotReqId>>
       \/ /\ instState["orig"] # "absent"
          /\ state' = instState["orig"]
          /\ currentType' = instType["orig"]
          /\ spotReqId' = (sir["orig"] # "none")
          /\ UNCHANGED fails
          /\ IF instType["orig"] = newType
             THEN ReturnOk
             ELSE /\ pc' = IF sir["orig"] # "none" THEN "SpotCheckState" ELSE "CheckState"
                  /\ UNCHANGED result

\* a lifecycle call (stop, start, terminate) on an instance, or the wait that
\* follows it: on success the instance moves to okState and the function goes
\* on at next; on failure the function returns the error
InstanceStep(here, op, inst, okState, next) ==
    /\ pc = here
    /\ UNCHANGED others
    /\ UNCHANGED <<instType, sir, sirPrice, volState, volAtt, storedUD, newLaunch, newUD, dns, locals, pre>>
    /\ \E ok \in CallOutcomes :
          /\ Log(op, inst, -1, 0, ok)
          /\ IF ok
             THEN /\ instState' = [instState EXCEPT ![inst] = okState]
                  /\ pc' = next
                  /\ UNCHANGED <<result, fails>>
             ELSE /\ ReturnErr(here)
                  /\ UNCHANGED instState

\* the retry loop of startInstances and restartInstances (cmd/start.go,
\* cmd/restart.go): its bounds and the errors a StartInstances call returns
\* for attempts := 0; attempts < 6
MaxStartAttempts == 6
\* ... && attempts < 5
LastRetryAttempt == 5
\* time.Sleep(10 * time.Second)
StartRetryDelay == 10
\* strings.Contains(err.Error(), "IncorrectSpotRequestState")
Transient == "IncorrectSpotRequestState"
\* what a StartInstances call returns: nil, the transient error, another error
StartOutcomes == IF cancelled THEN {"other"} ELSE {"ok", Transient, "other"}

\* a StartInstances call of resize: one call, whose error is returned whatever
\* its kind; on success the instance moves to pending
StartStep(here, inst, next) ==
    /\ pc = here
    /\ UNCHANGED others
    /\ UNCHANGED <<instType, sir, sirPrice, volState, volAtt, storedUD, newLaunch, newUD, dns, locals, pre>>
    /\ \E o \in StartOutcomes :
          /\ Log("StartInstances", inst, -1, 0, o = "ok")
          /\ IF o = "ok"
             THEN /\ instState' = [instState EXCEPT ![inst] = "pending"]
                  /\ pc' = next
                  /\ UNCHANGED <<result, fails>>
             ELSE /\ pc' = "Done"
                  /\ result' = "err"
                  /\ fails' = fails \cup {here} \cup (IF o = Transient THEN {Transient} ELSE {})
                  /\ UNCHANGED instState

\* updateDNS(inst): describe the instance, find the hosted zone, upsert the A
\* record.  "early" fails before the upsert is issued, "upsert" at the upsert.
DNSOutcome == IF cancelled THEN {"early"} ELSE {"ok", "early", "upsert"}
updateDNS(inst, o) ==
    /\ trace' = IF o = "early" THEN trace
                ELSE Append(trace, Entry("ChangeResourceRecordSets", inst, -1, 0, o = "ok"))
    /\ dns' = IF o = "ok" THEN inst ELSE dns
    /\ fails' = IF o = "ok" THEN fails ELSE fails \cup {"UpdateDNS"}

\* the state check that stops only a pending instance: a running one goes
\* straight to the profile mutation
CheckStateSkipsStop ==
    /\ pc = "CheckState"
    /\ UNCHANGED others
    /\ UNCHANGED <<cloud, locals, trace, pre>>
    /\ IF state = "pending"
       THEN pc' = "StopInstances" /\ UNCHANGED <<result, fails>>
       ELSE IF state \notin {"stopped", "running"}
            THEN ReturnErr("InvalidState")
            ELSE pc' = "ModifyInstanceAttribute" /\ UNCHANGED <<result, fails>>

\* ------------------------------------------- resizeInstance (on-demand path)
\* if running or pending: stop; else if not stopped: error
CheckState ==
    /\ pc = "CheckState"
    /\ UNCHANGED others
    /\ UNCHANGED <<cloud, locals, trace, pre>>
    /\ IF state \in {"running", "pending"}
       THEN pc' = "StopInstances" /\ UNCHANGED <<result, fails>>
       ELSE IF state # "stopped"
            THEN ReturnErr("InvalidState")
            ELSE pc' = "ModifyInstanceAttribute" /\ UNCHANGED <<result, fails>>

StopInstances ==
    InstanceStep("StopInstances", "StopInstances", "orig", "stopping", "WaitStopped")

WaitStopped ==
    InstanceStep("WaitStopped", "WaitStopped", "orig", "stopped", "ModifyInstanceAttribute")

\* the profile mutation that, when it fails, starts the instance again with
\* the profile it had before it returns the error
ModifyInstanceAttributeRestarts ==
    /\ pc = "ModifyInstanceAttribute"
    /\ UNCHANGED others
    /\ UNCHANGED <<sir, sirPrice, volState, volAtt, storedUD, newLaunch, newUD, dns, locals, pre>>
    /\ \E ok \in CallOutcomes :
          IF ok
          THEN /\ Log("ModifyInstanceType", "orig", -1, 0, ok)
               /\ instType' = [instType EXCEPT !["orig"] = newType]
               /\ pc' = "StartInstances"
               /\ UNCHANGED <<instState, result, fails>>
          ELSE /\ trace' = trace \o <<Entry("ModifyInstanceType", "orig", -1, 0, ok),
                                      Entry("StartInstances", "orig", -1, 0, TRUE)>>
               /\ instState' = [instState EXCEPT !["orig"] = "pending"]
               /\ ReturnErr("ModifyInstanceAttribute")
               /\ UNCHANGED instType

\* ModifyInstanceAttribute(InstanceType = newType)
ModifyInstanceAttribute ==
    /\ pc = "ModifyInstanceAttribute"
    /\ UNCHANGED others
    /\ UNCHANGED <<instState, sir, sirPrice, volState, volAtt, storedUD, newLaunch, newUD, dns, locals, pre>>
    /\ \E ok \in CallOutcomes :
          /\ Log("ModifyInstanceType", "orig", -1, 0, ok)
          /\ IF ok
             THEN /\ instType' = [instType EXCEPT !["orig"] = newType]
                  /\ pc' = "StartInstances"
                  /\ UNCHANGED <<result, fails>>
             ELSE /\ ReturnErr("ModifyInstanceAttribute")
                  /\ UNCHANGED instType

StartInstances ==
    StartStep("StartInstances", "orig", "WaitRunning")

WaitRunning ==
    InstanceStep("WaitRunning", "WaitRunning", "orig", "running", "UpdateDNS")

\* an in-place resize that returns the error of a failed DNS update
UpdateDNSFatal ==
    /\ pc = "UpdateDNS"
    /\ UNCHANGED others
    /\ UNCHANGED <<instState, instType, sir, sirPrice, volState, volAtt, storedUD, newLaunch, newUD, locals, pre>>
    /\ \E o \in DNSOutcome :
          /\ updateDNS("orig", o)
          /\ pc' = "Done"
          /\ result' = IF o = "ok" THEN "ok" ELSE "err"

\* the DNS update closing the on-demand path: a failure is only a warning
UpdateDNS ==
    /\ pc = "UpdateDNS"
    /\ UNCHANGED others
    /\ UNCHANGED <<instState, instType, sir, sirPrice, volState, volAtt, storedUD, newLaunch, newUD, locals, pre>>
    /\ \E o \in DNSOutcome : updateDNS("orig", o)
    /\ ReturnOk

\* the spot state check without the rejection of the other states
SpotCheckStateNoReject ==
    /\ pc = "SpotCheckState"
    /\ UNCHANGED others
    /\ UNCHANGED <<cloud, locals, trace, pre, result, fails>>
    /\ pc' = IF state \in {"running", "pending"} THEN "SpotStopInstances" ELSE "GatherConfig"

\* ------------------------------------------------------ resizeSpotInstance
\* 1. stop if running or pending; else if not stopped: error
SpotCheckState ==
    /\ pc = "SpotCheckState"
    /\ UNCHANGED others
    /\ UNCHANGED <<cloud, locals, trace, pre>>
    /\ IF state \in {"running", "pending"}
       THEN pc' = "SpotStopInstances" /\ UNCHANGED <<result, fails>>
       ELSE IF state # "stopped"
            THEN ReturnErr("InvalidState")
            ELSE pc' = "GatherConfig" /\ UNCHANGED <<result, fails>>

SpotStopInstances ==
    InstanceStep("SpotStopInstances", "StopInstances", "orig", "stopping", "SpotWaitStopped")

SpotWaitStopped ==
    InstanceStep("SpotWaitStopped", "WaitStopped", "orig", "stopped", "GatherConfig")

\* awsutil.FetchUserData: an error when the attribute cannot be read or is absent
FetchUserData(readOk) == IF readOk /\ storedUD # "none" THEN storedUD ELSE ""

\* patchNixOSUserData: a NixOS configuration lacking the import, the
\* modulesPath argument or the hostname gets them; anything else is returned as is
patchNixOSUserData(ud) == IF ud = "stale" THEN "patched" ELSE ud

\* the volume list without the root-device comparison: every mapping
ExtraVolumesAll == BlockDeviceMappings

\* the non-root volumes: every block device mapping whose device is not the
\* root device, in mapping order
ExtraVolumes == SelectSeq(BlockDeviceMappings, LAMBDA bdm : bdm.Device # RootDeviceName)

\* the gathering that returns the error of a failed user_data read
GatherConfigUserDataFatal ==
    /\ pc = "GatherConfig"
    /\ UNCHANGED others
    /\ UNCHANGED <<cloud, newType, state, currentType, spotReqId, idx, trace, pre>>
    /\ \E udOk \in CallOutcomes, sirOk \in CallOutcomes :
          IF FetchUserData(udOk) = ""
          THEN /\ ReturnErr("FetchUserData")
               /\ UNCHANGED <<userData, maxPrice, extraVolumes>>
          ELSE /\ userData' = patchNixOSUserData(FetchUserData(udOk))
               /\ maxPrice' = IF sirOk /\ sirPrice # "unset" THEN sirPrice ELSE "DefaultMaxPrice"
               /\ fails' = fails \cup (IF sirOk THEN {} ELSE {"DescribeSpotInstanceRequests"})
               /\ extraVolumes' = ExtraVolumes
               /\ pc' = "RunInstances"
               /\ UNCHANGED result

\* 2. and 3.: gather the launch configuration (reads only): user_data, the
\* spot max price, the non-root volumes
GatherConfig ==
    /\ pc = "GatherConfig"
    /\ UNCHANGED others
    /\ UNCHANGED <<cloud, newType, state, currentType, spotReqId, idx, trace, pre, result>>
    /\ \E udOk \in CallOutcomes, sirOk \in CallOutcomes :
          /\ userData' = IF FetchUserData(udOk) = "" THEN ""
                         ELSE patchNixOSUserData(FetchUserData(udOk))
          /\ maxPrice' = IF sirOk /\ sirPrice # "unset" THEN sirPrice ELSE "DefaultMaxPrice"
          /\ fails' = fails \cup (IF udOk THEN {} ELSE {"FetchUserData"})
                            \cup (IF sirOk THEN {} ELSE {"DescribeSpotInstanceRequests"})
    /\ extraVolumes' = ExtraVolumes
    /\ pc' = "RunInstances"

\* 4. launch the replacement as a persistent spot request with the new type
RunInstances ==
    /\ pc = "RunInstances"
    /\ UNCHANGED others
    /\ UNCHANGED <<sirPrice, volState, volAtt, storedUD, newUD, dns, locals, pre>>
    /\ \E ok \in CallOutcomes :
          /\ Log("RunInstances", "new", -1, 0, ok)
          /\ IF ok
             THEN /\ instState' = [instState EXCEPT !["new"] = "pending"]
                  /\ instType' = [instType EXCEPT !["new"] = newType]
                  /\ sir' = [sir EXCEPT !["new"] = "active"]
                  /\ newLaunch' = [type |-> newType,
                                   userData |-> IF userData = "" THEN "none" ELSE userData,
                                   maxPrice |-> maxPrice]
                  /\ pc' = "WaitNewRunning"
                  /\ UNCHANGED <<result, fails>>
             ELSE /\ ReturnErr("RunInstances")
                  /\ UNCHANGED <<instState, instType, sir, newLaunch>>

\* the wait whose error is dropped: the resize goes on to stop the replacement
WaitNewRunningIgnoresError ==
    /\ pc = "WaitNewRunning"
    /\ UNCHANGED others
    /\ UNCHANGED <<instType, sir, sirPrice, volState, volAtt, storedUD, newLaunch, newUD, dns, locals, pre>>
    /\ \E ok \in CallOutcomes :
          /\ Log("WaitRunning", "new", -1, 0, ok)
          /\ instState' = IF ok THEN [instState EXCEPT !["new"] = "running"] ELSE instState
          /\ pc' = "StopNew"
          /\ UNCHANGED <<result, fails>>

\* the capacity confirmation: wait until the replacement is running
WaitNewRunning ==
    InstanceStep("WaitNewRunning", "WaitRunning", "new", "running", "StopNew")

\* 5. stop the replacement for the volume swap
StopNew ==
    InstanceStep("StopNew", "StopInstances", "new", "stopping", "WaitNewStopped")

\* a failed wait that terminates the replacement before it returns the error
WaitNewStoppedRollsBack ==
    /\ pc = "WaitNewStopped"
    /\ UNCHANGED others
    /\ UNCHANGED <<instType, sir, sirPrice, volState, volAtt, storedUD, newLaunch, newUD, dns, locals, pre>>
    /\ \E ok \in CallOutcomes :
          IF ok
          THEN /\ Log("WaitStopped", "new", -1, 0, ok)
               /\ instState' = [instState EXCEPT !["new"] = "stopped"]
               /\ pc' = "PushUserData"
               /\ UNCHANGED <<result, fails>>
          ELSE /\ trace' = trace \o <<Entry("WaitStopped", "new", -1, 0, ok),
                                      Entry("TerminateInstances", "new", -1, 0, TRUE)>>
               /\ instState' = [instState EXCEPT !["new"] = "shutting-down"]
               /\ ReturnErr("WaitNewStopped")

WaitNewStopped ==
    InstanceStep("WaitNewStopped", "WaitStopped", "new", "stopped", "PushUserData")

\* the push whose failure returns the error
PushUserDataFatal ==
    /\ pc = "PushUserData"
    /\ UNCHANGED others
    /\ UNCHANGED <<instState, instType, sir, sirPrice, volState, volAtt, storedUD, newLaunch, dns, locals, pre>>
    /\ IF userData = ""
       THEN pc' = "CancelSpotInstanceRequests" /\ UNCHANGED <<newUD, trace, fails, result>>
       ELSE \E ok \in CallOutcomes :
               /\ Log("ModifyUserData", "new", -1, 0, ok)
               /\ IF ok
                  THEN /\ newUD' = userData
                       /\ pc' = "CancelSpotInstanceRequests"
                       /\ UNCHANGED <<result, fails>>
                  ELSE /\ ReturnErr("PushUserData")
                       /\ UNCHANGED newUD

\* 5b. push the patched user_data onto the replacement; a failure is a warning
PushUserData ==
    /\ pc = "PushUserData"
    /\ UNCHANGED others
    /\ UNCHANGED <<instState, instType, sir, sirPrice, volState, volAtt, storedUD, newLaunch, dns, locals, pre, result>>
    /\ pc' = "CancelSpotInstanceRequests"
    /\ IF userData = ""
       THEN UNCHANGED <<newUD, trace, fails>>
       ELSE \E ok \in CallOutcomes :
               /\ Log("ModifyUserData", "new", -1, 0, ok)
               /\ newUD' = IF ok THEN userData ELSE newUD
               /\ fails' = IF ok THEN fails ELSE fails \cup {"PushUserData"}

\* the cancel that, when it fails, terminates the replacement and cancels the
\* replacement's request before it returns the error
CancelSpotInstanceRequestsRollsBack ==
    /\ pc = "CancelSpotInstanceRequests"
    /\ UNCHANGED others
    /\ UNCHANGED <<instType, sirPrice, volState, volAtt, storedUD, newLaunch, newUD, dns, locals, pre>>
    /\ IF ~spotReqId
       THEN pc' = "DetachVolume" /\ UNCHANGED <<instState, sir, trace, result, fails>>
       ELSE \E ok \in CallOutcomes :
               IF ok
               THEN /\ Log("CancelSpotInstanceRequests", "orig", -1, 0, ok)
                    /\ sir' = [sir EXCEPT !["orig"] = "cancelled"]
                    /\ pc' = "DetachVolume"
                    /\ UNCHANGED <<instState, result, fails>>
               ELSE /\ trace' = trace \o <<Entry("CancelSpotInstanceRequests", "orig", -1, 0, ok),
                                           Entry("CancelSpotInstanceRequests", "new", -1, 0, TRUE),
                                           Entry("TerminateInstances", "new", -1, 0, TRUE)>>
                    /\ sir' = [sir EXCEPT !["new"] = "cancelled"]
                    /\ instState' = [instState EXCEPT !["new"] = "shutting-down"]
                    /\ ReturnErr("CancelSpotInstanceRequests")

\* 6. cancel the original's spot request
CancelSpotInstanceRequests ==
    /\ pc = "CancelSpotInstanceRequests"
    /\ UNCHANGED others
    /\ UNCHANGED <<instState, instType, sirPrice, volState, volAtt, storedUD, newLaunch, newUD, dns, locals, pre>>
    /\ IF ~spotReqId
       THEN pc' = "DetachVolume" /\ UNCHANGED <<sir, trace, result, fails>>
       ELSE \E ok \in CallOutcomes :
               /\ Log("CancelSpotInstanceRequests", "orig", -1, 0, ok)
               /\ IF ok
                  THEN /\ sir' = [sir EXCEPT !["orig"] = "cancelled"]
                       /\ pc' = "DetachVolume"
                       /\ UNCHANGED <<result, fails>>
                  ELSE /\ ReturnErr("CancelSpotInstanceRequests")
                       /\ UNCHANGED sir

\* 7. the detach loop: DetachVolume for extraVolumes[idx]; a failure returns
DetachVolume ==
    /\ pc = "DetachVolume"
    /\ UNCHANGED others
    /\ UNCHANGED <<instState, instType, sir, sirPrice, volAtt, storedUD, newLaunch, newUD, dns,
                   newType, state, currentType, spotReqId, userData, maxPrice, extraVolumes, pre>>
    /\ IF idx > Len(extraVolumes)
       THEN /\ pc' = "PollDetached"
            /\ idx' = 1
            /\ UNCHANGED <<volState, trace, result, fails>>
       ELSE \E ok \in CallOutcomes :
               /\ Log("DetachVolume", "orig", extraVolumes[idx].VolumeID, 0, ok)
               /\ IF ok
                  THEN /\ volState' = [volState EXCEPT ![extraVolumes[idx].VolumeID] = "detaching"]
                       /\ idx' = idx + 1
                       /\ UNCHANGED <<pc, result, fails>>
                  ELSE /\ ReturnErr("DetachVolume")
                       /\ UNCHANGED <<volState, idx>>

\* awsutil.PollVolumeState(vol, desired): succeeds only if a query sees the
\* volume in the desired state, which it reaches from the transitional state
PollCanSucceed(vol, desired) ==
    \/ volState[vol] = desired
    \/ desired = "available" /\ volState[vol] = "detaching"
    \/ desired = "in-use" /\ volState[vol] = "attaching"

\* the poll loop after the detach that only warns when a volume is not seen
\* available, and goes on to the terminate
PollDetachedWarns ==
    /\ pc = "PollDetached"
    /\ UNCHANGED others
    /\ UNCHANGED <<instState, instType, sir, sirPrice, storedUD, newLaunch, newUD, dns,
                   newType, state, currentType, spotReqId, userData, maxPrice, extraVolumes, pre, result>>
    /\ IF idx > Len(extraVolumes)
       THEN /\ pc' = "TerminateInstances"
            /\ idx' = 1
            /\ UNCHANGED <<volState, volAtt, trace, fails>>
       ELSE LET vol == extraVolumes[idx].VolumeID IN
            \E ok \in {b \in CallOutcomes : b => PollCanSucceed(vol, "available")} :
               /\ Log("PollVolumeState", "none", vol, 0, ok)
               /\ idx' = idx + 1
               /\ UNCHANGED pc
               /\ IF ok
                  THEN /\ volState' = [volState EXCEPT ![vol] = "available"]
                       /\ volAtt' = [volAtt EXCEPT ![vol] = NoAtt]
                       /\ UNCHANGED fails
                  ELSE /\ fails' = fails \cup {"PollDetached"}
                       /\ UNCHANGED <<volState, volAtt>>

\* the loop polling each detached volume to available; a failure returns
PollDetached ==
    /\ pc = "PollDetached"
    /\ UNCHANGED others
    /\ UNCHANGED <<instState, instType, sir, sirPrice, storedUD, newLaunch, newUD, dns,
                   newType, state, currentType, spotReqId, userData, maxPrice, extraVolumes, pre>>
    /\ IF idx > Len(extraVolumes)
       THEN /\ pc' = "TerminateInstances"
            /\ idx' = 1
            /\ UNCHANGED <<volState, volAtt, trace, result, fails>>
       ELSE LET vol == extraVolumes[idx].VolumeID IN
            \E ok \in {b \in CallOutcomes : b => PollCanSucceed(vol, "available")} :
               /\ Log("PollVolumeState", "none", vol, 0, ok)
               /\ IF ok
                  THEN /\ volState' = [volState EXCEPT ![vol] = "available"]
                       /\ volAtt' = [volAtt EXCEPT ![vol] = NoAtt]
                       /\ idx' = idx + 1
                       /\ UNCHANGED <<pc, result, fails>>
                  ELSE /\ ReturnErr("PollDetached")
                       /\ UNCHANGED <<volState, volAtt, idx>>

\* 8. terminate the original
TerminateInstances ==
    InstanceStep("TerminateInstances", "TerminateInstances", "orig", "shutting-down", "WaitTerminated")

WaitTerminated ==
    InstanceStep("WaitTerminated", "WaitTerminated", "orig", "terminated", "AttachVolume")

\* the attach loop that names the device by the loop index
AttachVolumeWrongDevice ==
    /\ pc = "AttachVolume"
    /\ UNCHANGED others
    /\ UNCHANGED <<instState, instType, sir, sirPrice, storedUD, newLaunch, newUD, dns,
                   newType, state, currentType, spotReqId, userData, maxPrice, extraVolumes, pre, result>>
    /\ IF idx > Len(extraVolumes)
       THEN /\ pc' = "PollAttached"
            /\ idx' = 1
            /\ UNCHANGED <<volState, volAtt, trace, fails>>
       ELSE LET vol == extraVolumes[idx] IN
            \E ok \in CallOutcomes :
               /\ Log("AttachVolume", "new", vol.VolumeID, idx, ok)
               /\ idx' = idx + 1
               /\ UNCHANGED pc
               /\ IF ok
                  THEN /\ volState' = [volState EXCEPT ![vol.VolumeID] = "attaching"]
                       /\ volAtt' = [volAtt EXCEPT ![vol.VolumeID] = [inst |-> "new", dev |-> idx]]
                       /\ UNCHANGED fails
                  ELSE /\ fails' = fails \cup {"AttachVolume"}
                       /\ UNCHANGED <<volState, volAtt>>

\* the attach loop that returns the error of a failed attach
AttachVolumeFatal ==
    /\ pc = "AttachVolume"
    /\ UNCHANGED others
    /\ UNCHANGED <<instState, instType, sir, sirPrice, storedUD, newLaunch, newUD, dns,
                   newType, state, currentType, spotReqId, userData, maxPrice, extraVolumes, pre>>
    /\ IF idx > Len(extraVolumes)
       THEN /\ pc' = "PollAttached"
            /\ idx' = 1
            /\ UNCHANGED <<volState, volAtt, trace, fails, result>>
       ELSE LET vol == extraVolumes[idx] IN
            \E ok \in CallOutcomes :
               /\ Log("AttachVolume", "new", vol.VolumeID, vol.Device, ok)
               /\ IF ok
                  THEN /\ volState' = [volState EXCEPT ![vol.VolumeID] = "attaching"]
                       /\ volAtt' = [volAtt EXCEPT ![vol.VolumeID] = [inst |-> "new", dev |-> vol.Device]]
                       /\ idx' = idx + 1
                       /\ UNCHANGED <<pc, fails, result>>
                  ELSE /\ ReturnErr("AttachVolume")
                       /\ UNCHANGED <<volState, volAtt, idx>>

\* 9. the attach loop: AttachVolume of extraVolumes[idx] to the replacement at
\* its old device; a failure is a warning and the loop continues
AttachVolume ==
    /\ pc = "AttachVolume"
    /\ UNCHANGED others
    /\ UNCHANGED <<instState, instType, sir, sirPrice, storedUD, newLaunch, newUD, dns,
                   newType, state, currentType, spotReqId, userData, maxPrice, extraVolumes, pre, result>>
    /\ IF idx > Len(extraVolumes)
       THEN /\ pc' = "PollAttached"
            /\ idx' = 1
            /\ UNCHANGED <<volState, volAtt, trace, fails>>
       ELSE LET vol == extraVolumes[idx] IN
            \E ok \in CallOutcomes :
               /\ Log("AttachVolume", "new", vol.VolumeID, vol.Device, ok)
               /\ idx' = idx + 1
               /\ UNCHANGED pc
               /\ IF ok
                  THEN /\ volState' = [volState EXCEPT ![vol.VolumeID] = "attaching"]
                       /\ volAtt' = [volAtt EXCEPT ![vol.VolumeID] = [inst |-> "new", dev |-> vol.Device]]
                       /\ UNCHANGED fails
                  ELSE /\ fails' = fails \cup {"AttachVolume"}
                       /\ UNCHANGED <<volState, volAtt>>

\* the loop polling each volume to in-use; a failure is a warning
PollAttached ==
    /\ pc = "PollAttached"
    /\ UNCHANGED others
    /\ UNCHANGED <<instState, instType, sir, sirPrice, volAtt, storedUD, newLaunch, newUD, dns,
                   newType, state, currentType, spotReqId, userData, maxPrice, extraVolumes, pre, result>>
    /\ IF idx > Len(extraVolumes)
       THEN /\ pc' = "StartNew"
            /\ idx' = 1
            /\ UNCHANGED <<volState, trace, fails>>
       ELSE LET vol == extraVolumes[idx].VolumeID IN
            \E ok \in {b \in CallOutcomes : b => PollCanSucceed(vol, "in-use")} :
               /\ Log("PollVolumeState", "none", vol, 0, ok)
               /\ idx' = idx + 1
               /\ UNCHANGED pc
               /\ IF ok
                  THEN /\ volState' = [volState EXCEPT ![vol] = "in-use"]
                       /\ UNCHANGED fails
                  ELSE /\ fails' = fails \cup {"PollAttached"}
                       /\ UNCHANGED volState

\* 10. start the replacement with the volumes attached
StartNew ==
    StartStep("StartNew", "new", "WaitNewStarted")

WaitNewStarted ==
    InstanceStep("WaitNewStarted", "WaitRunning", "new", "running", "SpotUpdateDNS")

\* 11. the DNS update closing the spot path: a failure is only a warning
SpotUpdateDNS ==
    /\ pc = "SpotUpdateDNS"
    /\ UNCHANGED others
    /\ UNCHANGED <<instState, instType, sir, sirPrice, volState, volAtt, storedUD, newLaunch, newUD, locals, pre>>
    /\ \E o \in DNSOutcome : updateDNS("new", o)
    /\ ReturnOk

\* what resizeInstance hands back to its caller: an error, or nil
Returned == [err |-> IF result = "err" THEN "error" ELSE "nil"]

\* ------------------------------------------------------------ specification
Next ==
    \/ DescribeInstance
    \/ CheckState
    \/ StopInstances
    \/ WaitStopped
    \/ ModifyInstanceAttribute
    \/ StartInstances
    \/ WaitRunning
    \/ UpdateDNS
    \/ SpotCheckState
    \/ SpotStopInstances
    \/ SpotWaitStopped
    \/ GatherConfig
    \/ RunInstances
    \/ WaitNewRunning
    \/ StopNew
    \/ WaitNewStopped
    \/ PushUserData
    \/ CancelSpotInstanceRequests
    \/ DetachVolume
    \/ PollDetached
    \/ TerminateInstances
    \/ WaitTerminated
    \/ AttachVolume
    \/ PollAttached
    \/ StartNew
    \/ WaitNewStarted
    \/ SpotUpdateDNS

Spec == Init /\ [][Next]_vars

TypeOK ==
    /\ instState \in [Insts -> InstanceStates \cup {"absent"}]
    /\ result \in {"none", "ok", "err"}
    /\ (pc = "Done") = (result # "none")
    /\ idx \in 1..(MaxVols + 1)

\* ------------------------------------------------------------- volumeMove
Regions == {"us-east-2", "us-west-2"}
\* cfg.Region of the source client
SourceRegion == "us-east-2"
Zones == {"us-east-2a", "us-west-2a", "us-west-2b"}
AZRegion(zone) == IF zone = "us-east-2a" THEN "us-east-2" ELSE "us-west-2"
\* targetRegion + "a"
DefaultZone(region) == IF region = "us-west-2" THEN "us-west-2a" ELSE "us-east-2a"
\* the performance classes a source volume may have: type, IOPS, throughput
\* (0 where DescribeVolumes returns nil)
PerformanceClasses == {<<"gp3", 3000, 125>>, <<"gp3", 6000, 250>>, <<"gp2", 100, 0>>, <<"st1", 0, 0>>}
VolumeSizes == {8, 100}
TagSets == {{}, {<<"Name", "data">>}, {<<"Name", "data">>, <<"env", "dev">>}}
\* what EC2 gives a new volume of a type when the request names no IOPS / throughput
DefaultIops(type) == IF type = "gp3" THEN 3000 ELSE IF type = "gp2" THEN 100 ELSE 0
DefaultThroughput(type) == IF type = "gp3" THEN 125 ELSE 0

\* a trace entry of the move: the call or poll, the snapshot or volume it names
MoveEntry(op, target, ok) == Entry(op, target, -1, 0, ok)

MoveInit ==
    /\ cmd = "move"
    /\ cancelled = FALSE
    /\ \E e \in BOOLEAN, sz \in VolumeSizes, pf \in PerformanceClasses, tg \in TagSets,
          st \in {"available", "in-use"} :
          srcVolume = [exists |-> e, id |-> "vol-src", size |-> sz, type |-> pf[1], iops |-> pf[2],
                       throughput |-> pf[3], tags |-> tg, state |-> st]
    /\ snaps = [k \in {"src", "dst"} |-> "absent"]
    /\ newVol = [NoVolume EXCEPT !.state = "absent"] @@ [az |-> "none", snapshot |-> "none"]
    /\ \E r \in Regions, zone \in Zones \cup {""}, c \in BOOLEAN :
          moveArgs = [targetRegion |-> r, targetAZ |-> zone, cleanup |-> c]
    /\ srcVol = NoVolume
    /\ StartIdle
    /\ PollIdle
    /\ RecoverIdle
    /\ SearchIdle
    /\ RebidIdle
    /\ ResolveIdle
    /\ pc = "MoveDescribe"
    /\ result = "none"
    /\ trace = <<>>
    /\ fails = {}
    /\ ResizeIdle

\* what a step of the move leaves alone
notMove == <<cloud, locals, pre, cmd, cancelled, resolveVars, rebidVars, searchVars, startVars, pollVars, recoverVars>>

\* the effective target zone: targetAZ, or targetRegion + "a" when empty
TargetAZ == IF moveArgs.targetAZ = "" THEN DefaultZone(moveArgs.targetRegion) ELSE moveArgs.targetAZ

\* resolveVolume and DescribeVolumes of the source volume
MoveDescribe ==
    /\ pc = "MoveDescribe"
    /\ UNCHANGED <<notMove, srcVolume, snaps, newVol, moveArgs, trace>>
    /\ \/ \* the lookup or the describe call fails
          /\ ReturnErr("DescribeVolumes")
          /\ UNCHANGED srcVol
       \/ /\ ~srcVolume.exists
          /\ ReturnErr("NotFound")
          /\ UNCHANGED srcVol
       \/ /\ srcVolume.exists
          /\ srcVol' = srcVolume
          /\ pc' = "CreateSnapshot"
          /\ UNCHANGED <<result, fails>>

\* a create or copy call of the move: on success the snapshot exists, pending
SnapshotCall(here, op, snap, next) ==
    /\ pc = here
    /\ UNCHANGED <<notMove, srcVolume, newVol, moveArgs, srcVol>>
    /\ \E ok \in CallOutcomes :
          /\ trace' = Append(trace, MoveEntry(op, snap, ok))
          /\ IF ok
             THEN /\ snaps' = [snaps EXCEPT ![snap] = "pending"]
                  /\ pc' = next
                  /\ UNCHANGED <<result, fails>>
             ELSE /\ ReturnErr(here)
                  /\ UNCHANGED snaps

\* the outcomes of pollSnapshotState: the target state seen, the deadline
\* passed, the snapshot seen in state error, a query failed
SnapshotPollOutcomes == IF cancelled THEN {"query"} ELSE {"ok", "timeout", "error", "query"}

\* a wait whose failure is not checked: the move goes on whatever the poll returns
SnapshotPollUnchecked(here, snap, next) ==
    /\ pc = here
    /\ UNCHANGED <<notMove, srcVolume, newVol, moveArgs, srcVol, result, fails>>
    /\ \E o \in SnapshotPollOutcomes :
          /\ trace' = Append(trace, MoveEntry("pollSnapshotState", snap, o = "ok"))
          /\ snaps' = [snaps EXCEPT ![snap] = IF o = "ok" THEN "completed"
                                              ELSE IF o = "error" THEN "error" ELSE @]
    /\ pc' = next

\* pollSnapshotState(snap, "completed") and the error return that follows it
SnapshotPoll(here, snap, next) ==
    /\ pc = here
    /\ UNCHANGED <<notMove, srcVolume, newVol, moveArgs, srcVol>>
    /\ \E o \in SnapshotPollOutcomes :
          /\ trace' = Append(trace, MoveEntry("pollSnapshotState", snap, o = "ok"))
          /\ snaps' = [snaps EXCEPT ![snap] = IF o = "ok" THEN "completed"
                                              ELSE IF o = "error" THEN "error" ELSE @]
          /\ IF o = "ok"
             THEN pc' = next /\ UNCHANGED <<result, fails>>
             ELSE ReturnErr(here)

\* Step 1: create the snapshot in the source region
CreateSnapshot ==
    SnapshotCall("CreateSnapshot", "CreateSnapshot", "src", "PollSourceSnapshot")

PollSourceSnapshot ==
    SnapshotPoll("PollSourceSnapshot", "src", "LoadTargetConfig")

\* Step 2: the client for the target region
LoadTargetConfig ==
    /\ pc = "LoadTargetConfig"
    /\ UNCHANGED <<notMove, moveVars, trace>>
    /\ \E ok \in CallOutcomes :
          IF ok THEN pc' = "CopySnapshot" /\ UNCHANGED <<result, fails>>
          ELSE ReturnErr("LoadTargetConfig")

\* Step 3: copy the snapshot into the target region
CopySnapshot ==
    SnapshotCall("CopySnapshot", "CopySnapshot", "dst", "PollTargetSnapshot")

PollTargetSnapshot ==
    SnapshotPoll("PollTargetSnapshot", "dst", "CreateVolume")

\* the CreateVolumeInput built from srcVol: size and type always, IOPS and
\* throughput when the source has them, the tags when there are any
CreateInput ==
    [az |-> TargetAZ, snapshot |-> "dst", size |-> srcVol.size, type |-> srcVol.type,
     iops |-> srcVol.iops, throughput |-> srcVol.throughput, tags |-> srcVol.tags]

\* the volume EC2 creates for an input: what the input leaves out (0) gets the
\* default of the volume type
CreatedVolume(in) ==
    [exists |-> TRUE, id |-> "vol-new", state |-> "creating", az |-> in.az, snapshot |-> in.snapshot,
     size |-> in.size, type |-> in.type,
     iops |-> IF in.iops = 0 THEN DefaultIops(in.type) ELSE in.iops,
     throughput |-> IF in.throughput = 0 THEN DefaultThroughput(in.type) ELSE in.throughput,
     tags |-> in.tags]

\* the target client only creates volumes in zones of its own region, from a
\* completed snapshot
CreateVolumeOutcomes(in) ==
    {b \in CallOutcomes : b => (AZRegion(in.az) = moveArgs.targetRegion /\ snaps[in.snapshot] = "completed")}

\* the create call that leaves IOPS and throughput to the defaults
CreateVolumeNoPerformance ==
    /\ pc = "CreateVolume"
    /\ UNCHANGED <<notMove, srcVolume, snaps, moveArgs, srcVol>>
    /\ LET in == [CreateInput EXCEPT !.iops = 0, !.throughput = 0] IN
       \E ok \in CreateVolumeOutcomes(in) :
          /\ trace' = Append(trace, MoveEntry("CreateVolume", "newVol", ok))
          /\ IF ok
             THEN /\ newVol' = CreatedVolume(in)
                  /\ pc' = "PollNewVolume"
                  /\ UNCHANGED <<result, fails>>
             ELSE /\ ReturnErr("CreateVolume")
                  /\ UNCHANGED newVol

\* Step 4: create the volume from the copied snapshot
CreateVolume ==
    /\ pc = "CreateVolume"
    /\ UNCHANGED <<notMove, srcVolume, snaps, moveArgs, srcVol>>
    /\ \E ok \in CreateVolumeOutcomes(CreateInput) :
          /\ trace' = Append(trace, MoveEntry("CreateVolume", "newVol", ok))
          /\ IF ok
             THEN /\ newVol' = CreatedVolume(CreateInput)
                  /\ pc' = "PollNewVolume"
                  /\ UNCHANGED <<result, fails>>
             ELSE /\ ReturnErr("CreateVolume")
                  /\ UNCHANGED newVol

\* a failed wait that removes the copied snapshot before it returns the error
PollNewVolumeRollsBack ==
    /\ pc = "PollNewVolume"
    /\ UNCHANGED <<notMove, srcVolume, moveArgs, srcVol>>
    /\ \E ok \in CallOutcomes :
          IF ok
          THEN /\ trace' = Append(trace, MoveEntry("PollVolumeState", "newVol", ok))
               /\ newVol' = [newVol EXCEPT !.state = "available"]
               /\ UNCHANGED <<fails, snaps>>
               /\ IF moveArgs.cleanup
                  THEN pc' = "DeleteSourceSnapshot" /\ UNCHANGED result
                  ELSE ReturnOk
          ELSE /\ trace' = trace \o <<MoveEntry("PollVolumeState", "newVol", ok),
                                      MoveEntry("DeleteSnapshot", "dst", TRUE)>>
               /\ snaps' = [snaps EXCEPT !["dst"] = "deleted"]
               /\ ReturnErr("PollNewVolume")
               /\ UNCHANGED newVol

\* awsutil.PollVolumeState(newVol, "available"), then the cleanup branch
PollNewVolume ==
    /\ pc = "PollNewVolume"
    /\ UNCHANGED <<notMove, srcVolume, snaps, moveArgs, srcVol>>
    /\ \E ok \in CallOutcomes :
          /\ trace' = Append(trace, MoveEntry("PollVolumeState", "newVol", ok))
          /\ IF ok
             THEN /\ newVol' = [newVol EXCEPT !.state = "available"]
                  /\ UNCHANGED fails
                  /\ IF moveArgs.cleanup
                     THEN pc' = "DeleteSourceSnapshot" /\ UNCHANGED result
                     ELSE ReturnOk
             ELSE /\ ReturnErr("PollNewVolume")
                  /\ UNCHANGED newVol

\* a cleanup that deletes the source volume along with the source snapshot
DeleteSourceSnapshotAndVolume ==
    /\ pc = "DeleteSourceSnapshot"
    /\ UNCHANGED <<notMove, newVol, moveArgs, srcVol, result>>
    /\ \E ok \in CallOutcomes :
          /\ trace' = trace \o <<MoveEntry("DeleteSnapshot", "src", ok),
                                 MoveEntry("DeleteVolume", "srcVolume", ok)>>
          /\ snaps' = IF ok THEN [snaps EXCEPT !["src"] = "deleted"] ELSE snaps
          /\ srcVolume' = IF ok THEN [srcVolume EXCEPT !.exists = FALSE, !.state = "deleted"]
                          ELSE srcVolume
          /\ fails' = IF ok THEN fails ELSE fails \cup {"DeleteSourceSnapshot"}
    /\ pc' = "DeleteTargetSnapshot"

\* Step 5: delete the source snapshot; a failure is a warning
DeleteSourceSnapshot ==
    /\ pc = "DeleteSourceSnapshot"
    /\ UNCHANGED <<notMove, srcVolume, newVol, moveArgs, srcVol, result>>
    /\ \E ok \in CallOutcomes :
          /\ trace' = Append(trace, MoveEntry("DeleteSnapshot", "src", ok))
          /\ snaps' = IF ok THEN [snaps EXCEPT !["src"] = "deleted"] ELSE snaps
          /\ fails' = IF ok THEN fails ELSE fails \cup {"DeleteSourceSnapshot"}
    /\ pc' = "DeleteTargetSnapshot"

\* a cleanup that leaves the target snapshot alone
DeleteTargetSnapshotSkipped ==
    /\ pc = "DeleteTargetSnapshot"
    /\ UNCHANGED <<notMove, moveVars, trace, fails>>
    /\ ReturnOk

\* delete the target snapshot; a failure is a warning; return nil
DeleteTargetSnapshot ==
    /\ pc = "DeleteTargetSnapshot"
    /\ UNCHANGED <<notMove, srcVolume, newVol, moveArgs, srcVol>>
    /\ \E ok \in CallOutcomes :
          /\ trace' = Append(trace, MoveEntry("DeleteSnapshot", "dst", ok))
          /\ snaps' = IF ok THEN [snaps EXCEPT !["dst"] = "deleted"] ELSE snaps
          /\ fails' = IF ok THEN fails ELSE fails \cup {"DeleteTargetSnapshot"}
    /\ ReturnOk

MoveNext ==
    \/ MoveDescribe
    \/ CreateSnapshot
    \/ PollSourceSnapshot
    \/ LoadTargetConfig
    \/ CopySnapshot
    \/ PollTargetSnapshot
    \/ CreateVolume
    \/ PollNewVolume
    \/ DeleteSourceSnapshot
    \/ DeleteTargetSnapshot

MoveSpec == MoveInit /\ [][MoveNext]_vars

\* ------------------------------------------- startInstances, restartInstances
StartInit ==
    /\ cmd \in {"start", "restart"}
    /\ cancelled = FALSE
    /\ ids \in (SUBSET Insts) \ {{}}
    /\ attempts = 0
    /\ startErrs = <<>>
    /\ clock = 0
    /\ pc = IF cmd = "start" THEN "StartLoop" ELSE "RestartStop"
    /\ result = "none"
    /\ trace = <<>>
    /\ fails = {}
    /\ ResizeIdle
    /\ MoveIdle
    /\ PollIdle
    /\ RecoverIdle
    /\ SearchIdle
    /\ RebidIdle
    /\ ResolveIdle

\* what a step of start or restart leaves alone
notStart == <<cloud, locals, pre, cmd, cancelled, resolveVars, rebidVars, searchVars, moveVars, pollVars, recoverVars, ids>>

\* a call or waiter of restart that must succeed
RestartStep(here, op, next) ==
    /\ pc = here
    /\ UNCHANGED <<notStart, attempts, startErrs, clock>>
    /\ \E ok \in CallOutcomes :
          /\ trace' = Append(trace, Entry(op, "ids", -1, 0, ok))
          /\ IF ok
             THEN pc' = next /\ UNCHANGED <<result, fails>>
             ELSE ReturnErr(here)

RestartStop == RestartStep("RestartStop", "StopInstances", "RestartWaitStopped")
RestartWaitStopped == RestartStep("RestartWaitStopped", "WaitStopped", "StartLoop")

\* where the loop goes when it ends without an error
AfterStartLoop == IF cmd = "start" THEN "StartReport" ELSE "RestartWaitRunning"

\* a loop that retries the transient error on every attempt
StartLoopRetriesAlways ==
    /\ pc = "StartLoop"
    /\ UNCHANGED <<notStart, attempts, clock>>
    /\ IF attempts < MaxStartAttempts
       THEN \E o \in StartOutcomes :
               /\ startErrs' = Append(startErrs, o)
               /\ trace' = Append(trace, Entry("StartInstances", "ids", -1, 0, o = "ok"))
               /\ IF o = "ok"
                  THEN pc' = AfterStartLoop /\ UNCHANGED <<result, fails>>
                  ELSE IF o = Transient
                  THEN pc' = "StartSleep" /\ UNCHANGED <<result, fails>>
                  ELSE ReturnErr("StartInstances")
       ELSE /\ pc' = AfterStartLoop
            /\ UNCHANGED <<startErrs, trace, result, fails>>

\* one pass of the loop up to the sleep: the condition, the call, the branches
StartLoop ==
    /\ pc = "StartLoop"
    /\ UNCHANGED <<notStart, attempts, clock>>
    /\ IF attempts < MaxStartAttempts
       THEN \E o \in StartOutcomes :
               /\ startErrs' = Append(startErrs, o)
               /\ trace' = Append(trace, Entry("StartInstances", "ids", -1, 0, o = "ok"))
               /\ IF o = "ok"
                  THEN pc' = AfterStartLoop /\ UNCHANGED <<result, fails>>
                  ELSE IF o = Transient /\ attempts < LastRetryAttempt
                  THEN pc' = "StartSleep" /\ UNCHANGED <<result, fails>>
                  ELSE ReturnErr("StartInstances")
       ELSE /\ pc' = AfterStartLoop
            /\ UNCHANGED <<startErrs, trace, result, fails>>

\* time.Sleep, continue: attempts++
StartSleep ==
    /\ pc = "StartSleep"
    /\ UNCHANGED <<notStart, startErrs, trace, result, fails>>
    /\ clock' = clock + StartRetryDelay
    /\ attempts' = attempts + 1
    /\ pc' = "StartLoop"

\* start prints the state changes and returns nil
StartReport ==
    /\ pc = "StartReport"
    /\ UNCHANGED <<notStart, attempts, startErrs, clock, trace, fails>>
    /\ ReturnOk

\* restart waits for the instances to run, then returns nil
RestartWaitRunning ==
    /\ pc = "RestartWaitRunning"
    /\ UNCHANGED <<notStart, attempts, startErrs, clock>>
    /\ \E ok \in CallOutcomes :
          /\ trace' = Append(trace, Entry("WaitRunning", "ids", -1, 0, ok))
          /\ IF ok
             THEN ReturnOk /\ UNCHANGED fails
             ELSE ReturnErr("RestartWaitRunning")

StartNext ==
    \/ RestartStop
    \/ RestartWaitStopped
    \/ StartLoop
    \/ StartSleep
    \/ StartReport
    \/ RestartWaitRunning

StartSpec == StartInit /\ [][StartNext]_vars

\* ------------------------------------- PollVolumeState, pollSnapshotState
\* the longest timeout tried, in poll intervals
MaxPolls == 3
\* VolumePollInterval, SnapshotPollInterval, in seconds
VolumePollInterval == 5
SnapshotPollInterval == 15
\* the seconds that may pass between the deadline check and the query
Latencies == {0, 1}
VolumeStates == {"creating", "available", "in-use"}
SnapshotStates == {"pending", "completed", "error"}
\* snap.StateMessage: "" when nil
StateMessages == {"", "disk failure"}

\* what one Describe query can return: an error, an empty list, or the resource
\* in one of its states (a snapshot in state error with or without a message)
QueryResults(kind) ==
    IF cancelled THEN {[res |-> "err", state |-> "none", msg |-> ""]}
    ELSE {[res |-> "err", state |-> "none", msg |-> ""], [res |-> "empty", state |-> "none", msg |-> ""]}
         \cup (IF kind = "volume"
               THEN {[res |-> "found", state |-> st, msg |-> ""] : st \in VolumeStates}
               ELSE {[res |-> "found", state |-> st, msg |-> m] :
                        st \in SnapshotStates, m \in StateMessages} \
                    {[res |-> "found", state |-> st, msg |-> "disk failure"] :
                        st \in SnapshotStates \ {"error"}})

PollInit ==
    /\ cmd = "poll"
    /\ cancelled = FALSE
    /\ \E k \in {"volume", "snapshot"}, n \in 0..MaxPolls :
       \E d \in (IF k = "volume" THEN {"available", "in-use"} ELSE {"completed"}) :
       LET iv == IF k = "volume" THEN VolumePollInterval ELSE SnapshotPollInterval IN
          pollArgs = [kind |-> k, id |-> IF k = "volume" THEN "vol-1" ELSE "snap-1",
                      desired |-> d, interval |-> iv, timeout |-> n * iv]
    /\ clock \in Latencies
    \* deadline := time.Now().Add(timeout)
    /\ deadline = clock + pollArgs.timeout
    /\ observed = <<>>
    /\ pollErr = NoErr
    /\ pc = "PollCheckDeadline"
    /\ result = "none"
    /\ trace = <<>>
    /\ fails = {}
    /\ ids = {}
    /\ attempts = 0
    /\ startErrs = <<>>
    /\ ResizeIdle
    /\ MoveIdle
    /\ RecoverIdle
    /\ SearchIdle
    /\ RebidIdle
    /\ ResolveIdle

\* what a step of a poll leaves alone
notPoll == <<cloud, locals, pre, cmd, cancelled, resolveVars, rebidVars, searchVars, moveVars, recoverVars, ids, attempts, startErrs,
             pollArgs, deadline, trace>>

\* return fmt.Errorf(...) of a poll
PollReturnErr(e) ==
    /\ pollErr' = e
    /\ ReturnErr(e.kind)

\* a timeout message that also reports the state seen last
PollCheckDeadlineReportsState ==
    /\ pc = "PollCheckDeadline"
    /\ UNCHANGED <<notPoll, observed>>
    /\ IF clock > deadline
       THEN /\ PollReturnErr([kind |-> "timeout", id |-> pollArgs.id, desired |-> pollArgs.desired,
                              state |-> IF observed = <<>> THEN "none"
                                        ELSE observed[Len(observed)].state])
            /\ UNCHANGED clock
       ELSE /\ pc' = "PollQuery"
            /\ \E l \in Latencies : clock' = clock + l
            /\ UNCHANGED <<result, fails, pollErr>>

\* a loop without the deadline check
PollCheckDeadlineNever ==
    /\ pc = "PollCheckDeadline"
    /\ UNCHANGED <<notPoll, observed, result, fails, pollErr>>
    /\ pc' = "PollQuery"
    /\ \E l \in Latencies : clock' = clock + l

\* if time.Now().After(deadline) { return fmt.Errorf("timed out waiting ...") }
PollCheckDeadline ==
    /\ pc = "PollCheckDeadline"
    /\ UNCHANGED <<notPoll, observed>>
    /\ IF clock > deadline
       THEN /\ PollReturnErr([kind |-> "timeout", id |-> pollArgs.id, desired |-> pollArgs.desired])
            /\ UNCHANGED clock
       ELSE /\ pc' = "PollQuery"
            /\ \E l \in Latencies : clock' = clock + l
            /\ UNCHANGED <<result, fails, pollErr>>

\* a query whose result is not inspected for the error state
PollQueryIgnoresErrorState ==
    /\ pc = "PollQuery"
    /\ UNCHANGED <<notPoll, clock>>
    /\ \E r \in QueryResults(pollArgs.kind) :
          /\ observed' = Append(observed, r @@ [at |-> clock])
          /\ IF r.res = "err"
             THEN PollReturnErr([kind |-> "query"])
             ELSE IF r.res = "found" /\ r.state = pollArgs.desired
             THEN ReturnOk /\ UNCHANGED <<fails, pollErr>>
             ELSE pc' = "PollSleep" /\ UNCHANGED <<result, fails, pollErr>>

\* a query that returns a not-found error when the result is empty
PollQueryEmptyIsNotFound ==
    /\ pc = "PollQuery"
    /\ UNCHANGED <<notPoll, clock>>
    /\ \E r \in QueryResults(pollArgs.kind) :
          /\ observed' = Append(observed, r @@ [at |-> clock])
          /\ IF r.res = "err"
             THEN PollReturnErr([kind |-> "query"])
             ELSE IF r.res = "empty"
             THEN PollReturnErr([kind |-> "notfound", id |-> pollArgs.id])
             ELSE IF r.state = pollArgs.desired
             THEN ReturnOk /\ UNCHANGED <<fails, pollErr>>
             ELSE IF pollArgs.kind = "snapshot" /\ r.state = "error"
             THEN PollReturnErr([kind |-> "failed", id |-> pollArgs.id, msg |-> r.msg])
             ELSE pc' = "PollSleep" /\ UNCHANGED <<result, fails, pollErr>>

\* the Describe call and the branches on its result
PollQuery ==
    /\ pc = "PollQuery"
    /\ UNCHANGED <<notPoll, clock>>
    /\ \E r \in QueryResults(pollArgs.kind) :
          /\ observed' = Append(observed, r @@ [at |-> clock])
          /\ IF r.res = "err"
             THEN PollReturnErr([kind |-> "query"])
             ELSE IF r.res = "found" /\ r.state = pollArgs.desired
             THEN ReturnOk /\ UNCHANGED <<fails, pollErr>>
             ELSE IF pollArgs.kind = "snapshot" /\ r.res = "found" /\ r.state = "error"
             THEN PollReturnErr([kind |-> "failed", id |-> pollArgs.id, msg |-> r.msg])
             ELSE pc' = "PollSleep" /\ UNCHANGED <<result, fails, pollErr>>

\* time.Sleep(interval)
PollSleep ==
    /\ pc = "PollSleep"
    /\ UNCHANGED <<notPoll, observed, result, fails, pollErr>>
    /\ clock' = clock + pollArgs.interval
    /\ pc' = "PollCheckDeadline"

PollNext ==
    \/ PollCheckDeadline
    \/ PollQuery
    \/ PollSleep

PollSpec == PollInit /\ [][PollNext]_vars

\* ---------------------------------------------------------- recoverInstance
\* the zones of the client's region
RecoverZones == {"us-east-2a", "us-east-2b"}
\* the instance types DescribeInstanceTypes knows
CatalogTypes == Profiles \cup {"arm", "gpu", "old"}
\* DescribeInstanceTypes: vCPUs, memory (MiB), first supported architecture, GPU
\* and generation of each instance type; all of them support spot
Catalog ==
    [t \in CatalogTypes |->
        [vcpus      |-> IF t = "small" THEN 2 ELSE 8,
         memMiB     |-> IF t = "small" THEN 4096 ELSE 32768,
         arch       |-> IF t = "arm" THEN "arm64" ELSE "x86_64",
         gpu        |-> t = "gpu",
         currentGen |-> t # "old"]]
\* the offers the price history may hold (price in $/hr)
Offers == {[itype |-> "small", az |-> "us-east-2a", price |-> 1, ts |-> 1],
           [itype |-> "large", az |-> "us-east-2a", price |-> 3, ts |-> 1],
           [itype |-> "large", az |-> "us-east-2a", price |-> 1, ts |-> 2],
           [itype |-> "small", az |-> "us-east-2b", price |-> 1, ts |-> 1],
           [itype |-> "arm", az |-> "us-east-2a", price |-> 1, ts |-> 1],
           [itype |-> "gpu", az |-> "us-east-2a", price |-> 2, ts |-> 1]}
\* the price histories recover is run against
Histories == {h \in SUBSET Offers : Cardinality(h) <= 2 \/ h = Offers}
\* the types of the instance being recovered
RecoverTypes == {"small", "large", "gpu"}
\* --min-vcpu and --min-mem (GiB): 0 when the flag is not given
MinFlags == {[vcpu |-> 0, mem |-> 0], [vcpu |-> 4, mem |-> 0], [vcpu |-> 0, mem |-> 8],
             [vcpu |-> 16, mem |-> 0]}
\* --max-price: 0 when the flag is not given
MaxPriceFlags == {0, 4}
\* dcfg.DefaultMaxPrice "2.00"
DefaultMaxPrice == 2
\* if len(display) > 10 { display = display[:10] }
DisplayLimit == 10

RecoverInit ==
    /\ cmd = "recover"
    /\ cancelled = FALSE
    /\ \E st \in {"running", "stopped", "terminated", "absent"} :
          instState = [i \in Insts |-> IF i = "orig" THEN st ELSE "absent"]
    /\ \E t \in RecoverTypes : instType = [i \in Insts |-> IF i = "orig" THEN t ELSE "none"]
    /\ \E r \in {"none", "active"} : sir = [i \in Insts |-> IF i = "orig" THEN r ELSE "none"]
    /\ sirPrice = "bid"
    /\ \E A \in {{}, DataVols} :
          /\ volAtt = [v \in Vols |-> IF v = 0 \/ v \in A
                                      THEN [inst |-> "orig", dev |-> v] ELSE NoAtt]
          /\ volState = [v \in Vols |-> IF v = 0 \/ v \in A THEN "in-use" ELSE "available"]
    /\ storedUD = "good"
    /\ newLaunch = [type |-> "none", userData |-> "none", maxPrice |-> "none"]
    /\ newUD = "none"
    /\ dns = "orig"
    /\ newType = "small"
    /\ state = "none"
    /\ currentType = "none"
    /\ spotReqId = FALSE
    /\ userData = ""
    /\ maxPrice = "none"
    /\ extraVolumes = <<>>
    /\ idx = 1
    /\ pre = Snapshot
    /\ instAZ \in RecoverZones
    /\ history \in Histories
    /\ \E f \in MaxPriceFlags, y \in BOOLEAN, m \in MinFlags :
          recArgs = [minVCPUFlag |-> m.vcpu, minMemFlag |-> m.mem, maxPriceFlag |-> f, autoYes |-> y]
    /\ az = "none"
    /\ candidates = {}
    /\ results = {}
    /\ displayed = <<>>
    /\ chosen = NoOffer
    /\ pc = "RecDescribe"
    /\ result = "none"
    /\ trace = <<>>
    /\ fails = {}
    /\ MoveIdle
    /\ StartIdle
    /\ PollIdle
    /\ SearchIdle
    /\ RebidIdle
    /\ ResolveIdle

\* what a step of recover up to the selection leaves alone
notRecover == <<cloud, pre, cmd, cancelled, resolveVars, rebidVars, searchVars, moveVars, startVars, pollVars, instAZ, history, recArgs,
                newType, spotReqId, userData, maxPrice, extraVolumes, idx, trace, displayed, chosen>>

\* 1. DescribeInstances, the not-found and the terminated check
RecDescribe ==
    /\ pc = "RecDescribe"
    /\ UNCHANGED <<notRecover, candidates, results>>
    /\ \/ /\ ReturnErr("DescribeInstances")
          /\ UNCHANGED <<state, currentType, az>>
       \/ /\ instState["orig"] = "absent"
          /\ ReturnErr("NotFound")
          /\ UNCHANGED <<state, currentType, az>>
       \/ /\ instState["orig"] # "absent"
          /\ currentType' = instType["orig"]
          /\ az' = instAZ
          /\ state' = instState["orig"]
          /\ IF instState["orig"] = "terminated"
             THEN ReturnErr("Terminated")
             ELSE pc' = "RecDescribeType" /\ UNCHANGED <<result, fails>>

\* 2. DescribeInstanceTypes of the current type
RecDescribeType ==
    /\ pc = "RecDescribeType"
    /\ UNCHANGED <<notRecover, state, currentType, az, candidates, results>>
    /\ \E ok \in CallOutcomes :
          IF ok THEN pc' = "RecFetchTypes" /\ UNCHANGED <<result, fails>>
          ELSE ReturnErr("DescribeInstanceTypes")

\* 3. the search criteria: the flags when positive, else half the current
\* vCPUs and half the current memory (minMem GiB as the MiB it is compared in)
MinVCPU == IF recArgs.minVCPUFlag > 0 THEN recArgs.minVCPUFlag
           ELSE Catalog[currentType].vcpus \div 2
MinMemMiB == IF recArgs.minMemFlag > 0 THEN recArgs.minMemFlag * 1024
             ELSE Catalog[currentType].memMiB \div 2
\* the first supported architecture and the GPU of the current type
CurrentArch == Catalog[currentType].arch
\* a search that never requires a GPU
NoGPURequired == FALSE

HasGPU == Catalog[currentType].gpu

\* awsutil.FetchInstanceTypes: the current-generation types of the
\* architecture with at least minVCPU and minMem, with a GPU when one is required
FetchInstanceTypes(arch, minVCPU, minMemMiB, requireGPU) ==
    {t \in CatalogTypes : /\ Catalog[t].currentGen
                          /\ Catalog[t].arch = arch
                          /\ ~(Catalog[t].vcpus < minVCPU)
                          /\ ~(Catalog[t].memMiB < minMemMiB)
                          /\ ~(requireGPU /\ ~Catalog[t].gpu)}

\* the candidate types of recover
RecoverCandidates == FetchInstanceTypes(CurrentArch, MinVCPU, MinMemMiB, HasGPU)

\* 4. find the candidate instance types
RecFetchTypes ==
    /\ pc = "RecFetchTypes"
    /\ UNCHANGED <<notRecover, state, currentType, az, results>>
    /\ \E ok \in CallOutcomes :
          IF ok
          THEN /\ candidates' = RecoverCandidates
               /\ IF RecoverCandidates = {}
                  THEN ReturnOk /\ UNCHANGED fails
                  ELSE pc' = "RecFetchPrices" /\ UNCHANGED <<result, fails>>
          ELSE /\ ReturnErr("FetchInstanceTypes")
               /\ UNCHANGED candidates

\* awsutil.FetchSpotPrices: of the history of the given types, skip the offers
\* outside azFilter (when it is not ""), keep the latest per (type, zone)
FetchSpotPrices(instanceTypes, azFilter) ==
    LET seen == {sp \in history : /\ sp.itype \in instanceTypes
                                  /\ ~(azFilter # "" /\ sp.az # azFilter)}
        newest == {sp \in seen : \A q \in seen :
                      (q.itype = sp.itype /\ q.az = sp.az) => q.ts <= sp.ts}
    IN {[itype |-> sp.itype, az |-> sp.az, price |-> sp.price] : sp \in newest}

\* a price lookup that is not narrowed to the instance's zone
RecFetchPricesAnyZone ==
    /\ pc = "RecFetchPrices"
    /\ UNCHANGED <<notRecover, state, currentType, az, candidates>>
    /\ \E ok \in CallOutcomes :
          IF ok
          THEN /\ results' = FetchSpotPrices(candidates, "")
               /\ pc' = "RecSelect"
               /\ UNCHANGED <<result, fails>>
          ELSE /\ ReturnErr("FetchSpotPrices")
               /\ UNCHANGED results

\* 5. fetch the spot prices filtered to the instance's AZ
RecFetchPrices ==
    /\ pc = "RecFetchPrices"
    /\ UNCHANGED <<notRecover, state, currentType, az, candidates>>
    /\ \E ok \in CallOutcomes :
          IF ok
          THEN /\ results' = FetchSpotPrices(candidates, az)
               /\ pc' = "RecSelect"
               /\ UNCHANGED <<result, fails>>
          ELSE /\ ReturnErr("FetchSpotPrices")
               /\ UNCHANGED results

\* the max price in force: the flag, else the configured default
EffectiveMaxPrice == IF recArgs.maxPriceFlag > 0 THEN recArgs.maxPriceFlag ELSE DefaultMaxPrice

\* the orders sort.Slice may leave a set of offers in: ascending by price, equal
\* prices in any order
SortedByPrice(S) ==
    {q \in [1..Cardinality(S) -> S] :
        /\ \A i, j \in DOMAIN q : i # j => q[i] # q[j]
        /\ \A i, j \in DOMAIN q : i < j => q[i].price <= q[j].price}

\* a selection that resizes to the last row of the table
RecSelectDearest ==
    /\ pc = "RecSelect"
    /\ UNCHANGED <<cloud, pre, cmd, cancelled, resolveVars, rebidVars, searchVars, moveVars, startVars, pollVars, instAZ, history, recArgs,
                   state, currentType, spotReqId, userData, maxPrice, extraVolumes, idx,
                   az, candidates, fails>>
    /\ LET filtered == IF EffectiveMaxPrice > 0
                       THEN {r \in results : r.price <= EffectiveMaxPrice} ELSE results
       IN /\ results' = filtered
          /\ IF filtered = {}
             THEN /\ ReturnOk
                  /\ UNCHANGED <<displayed, chosen, newType, trace>>
             ELSE \E sorted \in SortedByPrice(filtered) :
                     /\ displayed' = SubSeq(sorted, 1, IF Len(sorted) > DisplayLimit
                                                       THEN DisplayLimit ELSE Len(sorted))
                     /\ chosen' = sorted[1]
                     /\ IF recArgs.autoYes
                        THEN /\ newType' = sorted[Len(sorted)].itype
                             /\ Log("resizeInstance", "orig", -1, 0, TRUE)
                             /\ pc' = "Describe"
                             /\ UNCHANGED result
                        ELSE /\ ReturnOk
                             /\ UNCHANGED <<newType, trace>>

\* 6.-9. the max price filter, the sort, the table, and the suggestion or the
\* call of resizeInstance with the cheapest type
RecSelect ==
    /\ pc = "RecSelect"
    /\ UNCHANGED <<cloud, pre, cmd, cancelled, resolveVars, rebidVars, searchVars, moveVars, startVars, pollVars, instAZ, history, recArgs,
                   state, currentType, spotReqId, userData, maxPrice, extraVolumes, idx,
                   az, candidates, fails>>
    /\ LET filtered == IF EffectiveMaxPrice > 0
                       THEN {r \in results : r.price <= EffectiveMaxPrice} ELSE results
       IN /\ results' = filtered
          /\ IF filtered = {}
             THEN /\ ReturnOk
                  /\ UNCHANGED <<displayed, chosen, newType, trace>>
             ELSE \E sorted \in SortedByPrice(filtered) :
                     /\ displayed' = SubSeq(sorted, 1, IF Len(sorted) > DisplayLimit
                                                       THEN DisplayLimit ELSE Len(sorted))
                     /\ chosen' = sorted[1]
                     /\ IF recArgs.autoYes
                        THEN /\ newType' = sorted[1].itype
                             /\ Log("resizeInstance", "orig", -1, 0, TRUE)
                             /\ pc' = "Describe"
                             /\ UNCHANGED result
                        ELSE /\ ReturnOk
                             /\ UNCHANGED <<newType, trace>>

RecoverNext ==
    \/ RecDescribe
    \/ RecDescribeType
    \/ RecFetchTypes
    \/ RecFetchPrices
    \/ RecSelect
    \/ Next

RecoverSpec == RecoverInit /\ [][RecoverNext]_vars

\* ------------------------------------------------------------------ runSearch
\* the longest price history a search is run against, in observations
MaxArrivals == 3
\* the most observations one page of DescribeSpotPriceHistory holds
MaxPage == 2
\* --arch, --min-vcpu, --min-mem (GiB) and --gpu: the defaults, and others
SearchCriteria == {[arch |-> "x86_64", minVCPU |-> 8, minMem |-> 16, gpu |-> FALSE],
                   [arch |-> "x86_64", minVCPU |-> 2, minMem |-> 4, gpu |-> FALSE],
                   [arch |-> "x86_64", minVCPU |-> 2, minMem |-> 4, gpu |-> TRUE],
                   [arch |-> "arm64", minVCPU |-> 8, minMem |-> 16, gpu |-> FALSE]}
\* the positional arguments: none, or instance types to look up
SearchTypeArgs == {{}, {"small", "old"}}
\* --max-price: 0 when the flag is not given
SearchMaxPrices == {0, 2}
\* --az: "" when the flag is not given
SearchZones == {"", "us-east-2a"}
\* --sort
SortKeys == {"price", "vcpu", "mem"}
\* --limit: one row, or the default
SearchLimits == {1, 20}
\* the observations the price history of a search may hold
SearchOffers == Offers \cup {[itype |-> "old", az |-> "us-east-2a", price |-> 1, ts |-> 1]}
\* the orders in which the pages may deliver up to MaxArrivals observations
Arrivals ==
    UNION {{q \in [1..n -> SearchOffers] : Injective(q)} : n \in 0..MaxArrivals}

SearchInit ==
    /\ cmd = "search"
    /\ cancelled = FALSE
    /\ \E c \in SearchCriteria, t \in SearchTypeArgs, m \in SearchMaxPrices, z \in SearchZones,
          k \in SortKeys, l \in SearchLimits :
          /\ t # {} => c = [arch |-> "x86_64", minVCPU |-> 8, minMem |-> 16, gpu |-> FALSE]
          /\ searchArgs = [types |-> t, arch |-> c.arch, minVCPU |-> c.minVCPU, minMem |-> c.minMem,
                           gpu |-> c.gpu, maxPrice |-> m, az |-> z, sortBy |-> k, limit |-> l]
    /\ arrival \in Arrivals
    /\ history = {arrival[i] : i \in DOMAIN arrival}
    /\ latest = {}
    /\ pos = 1
    /\ instAZ = "none"
    /\ recArgs = [minVCPUFlag |-> 0, minMemFlag |-> 0, maxPriceFlag |-> 0, autoYes |-> FALSE]
    /\ az = "none"
    /\ candidates = {}
    /\ results = {}
    /\ displayed = <<>>
    /\ chosen = NoOffer
    /\ pc = "SearchTypes"
    /\ result = "none"
    /\ trace = <<>>
    /\ fails = {}
    /\ ResizeIdle
    /\ MoveIdle
    /\ StartIdle
    /\ PollIdle
    /\ RebidIdle
    /\ ResolveIdle

\* what a step of the search leaves alone
notSearch == <<cloud, locals, pre, cmd, cancelled, resolveVars, rebidVars, moveVars, startVars, pollVars,
               instAZ, history, recArgs, az, chosen, trace, searchArgs, arrival>>

\* awsutil.DescribeSpecificTypes: the named types, whatever their specs
DescribeSpecificTypes(typeNames) == typeNames \cap CatalogTypes

\* 1. the instance types: the positional arguments, else the types that match
\* the hardware flags
SearchTypes ==
    /\ pc = "SearchTypes"
    /\ UNCHANGED <<notSearch, results, displayed, latest, pos>>
    /\ \E ok \in CallOutcomes :
          IF ok
          THEN LET instanceTypes ==
                       IF searchArgs.types # {} THEN DescribeSpecificTypes(searchArgs.types)
                       ELSE FetchInstanceTypes(searchArgs.arch, searchArgs.minVCPU,
                                               searchArgs.minMem * 1024, searchArgs.gpu)
               IN /\ candidates' = instanceTypes
                  /\ IF instanceTypes = {}
                     THEN ReturnOk /\ UNCHANGED fails
                     ELSE pc' = "SearchPrices" /\ UNCHANGED <<result, fails>>
          ELSE /\ ReturnErr("DescribeInstanceTypes")
               /\ UNCHANGED candidates

\* a page loop that keeps the observations of every zone
RECURSIVE MergePageAnyZone(_, _, _)
MergePageAnyZone(kept, page, azFilter) ==
    IF page = <<>> THEN kept
    ELSE LET sp == Head(page)
             existing == {e \in kept : e.itype = sp.itype /\ e.az = sp.az}
         IN IF existing = {} \/ \E e \in existing : sp.ts > e.ts
            THEN MergePageAnyZone((kept \ existing) \cup {sp}, Tail(page), azFilter)
            ELSE MergePageAnyZone(kept, Tail(page), azFilter)

\* a page loop that keeps the observation that arrived last
RECURSIVE MergePageKeepsLast(_, _, _)
MergePageKeepsLast(kept, page, azFilter) ==
    IF page = <<>> THEN kept
    ELSE LET sp == Head(page)
             existing == {e \in kept : e.itype = sp.itype /\ e.az = sp.az}
         IN IF azFilter # "" /\ sp.az # azFilter
            THEN MergePageKeepsLast(kept, Tail(page), azFilter)
            ELSE MergePageKeepsLast((kept \ existing) \cup {sp}, Tail(page), azFilter)

\* the loop body of FetchSpotPrices over one page: skip the observations outside
\* azFilter (when it is not ""), and keep an observation when its (type, zone)
\* has none yet or an older one
RECURSIVE MergePage(_, _, _)
MergePage(kept, page, azFilter) ==
    IF page = <<>> THEN kept
    ELSE LET sp == Head(page)
             existing == {e \in kept : e.itype = sp.itype /\ e.az = sp.az}
         IN IF azFilter # "" /\ sp.az # azFilter
            THEN MergePage(kept, Tail(page), azFilter)
            ELSE IF existing = {} \/ \E e \in existing : sp.ts > e.ts
            THEN MergePage((kept \ existing) \cup {sp}, Tail(page), azFilter)
            ELSE MergePage(kept, Tail(page), azFilter)

\* the observations of the requested types, in the order of arrival
Delivered == SelectSeq(arrival, LAMBDA sp : sp.itype \in candidates)

\* 2. awsutil.FetchSpotPrices: page after page of the history of the requested
\* types, then one result per (type, zone) kept
SearchPrices ==
    /\ pc = "SearchPrices"
    /\ UNCHANGED <<notSearch, candidates, displayed>>
    /\ IF pos <= Len(Delivered) \/ pos = 1
       THEN \E ok \in CallOutcomes :
               IF ok
               THEN \E n \in 1..MaxPage :
                       /\ pos + n - 1 <= Len(Delivered) \/ n = 1
                       /\ latest' = MergePage(latest,
                                              SubSeq(Delivered, pos,
                                                     IF pos + n - 1 <= Len(Delivered)
                                                     THEN pos + n - 1 ELSE Len(Delivered)),
                                              searchArgs.az)
                       /\ pos' = pos + n
                       /\ UNCHANGED <<pc, result, fails, results>>
               ELSE /\ ReturnErr("DescribeSpotPriceHistory")
                    /\ UNCHANGED <<latest, pos, results>>
       ELSE /\ results' = {[itype |-> sp.itype, az |-> sp.az, price |-> sp.price] : sp \in latest}
            /\ pc' = "SearchSelect"
            /\ UNCHANGED <<latest, pos, result, fails>>

\* the value a row is sorted by
SortKey(sortBy, r) ==
    IF sortBy = "vcpu" THEN Catalog[r.itype].vcpus
    ELSE IF sortBy = "mem" THEN Catalog[r.itype].memMiB
    ELSE r.price

\* the orders sort.Slice may leave a set of offers in: ascending by the key,
\* equal keys in any order
SortedBy(sortBy, S) ==
    {q \in [1..Cardinality(S) -> S] :
        /\ \A i, j \in DOMAIN q : i # j => q[i] # q[j]
        /\ \A i, j \in DOMAIN q : i < j => SortKey(sortBy, q[i]) <= SortKey(sortBy, q[j])}

\* a search that reports an empty result as an error
SearchSelectEmptyFails ==
    /\ pc = "SearchSelect"
    /\ UNCHANGED <<notSearch, candidates, latest, pos>>
    /\ LET filtered == IF searchArgs.maxPrice > 0
                       THEN {r \in results : r.price <= searchArgs.maxPrice} ELSE results
       IN /\ results' = filtered
          /\ IF filtered = {}
             THEN ReturnErr("NoMatch") /\ UNCHANGED displayed
             ELSE /\ ReturnOk /\ UNCHANGED fails
                  /\ \E sorted \in SortedBy(searchArgs.sortBy, filtered) :
                     displayed' = IF searchArgs.limit > 0 /\ Len(sorted) > searchArgs.limit
                                  THEN SubSeq(sorted, 1, searchArgs.limit) ELSE sorted

\* 3.-6. the max price filter, the sort, the truncation and the table
SearchSelect ==
    /\ pc = "SearchSelect"
    /\ UNCHANGED <<notSearch, candidates, latest, pos, fails>>
    /\ LET filtered == IF searchArgs.maxPrice > 0
                       THEN {r \in results : r.price <= searchArgs.maxPrice} ELSE results
       IN /\ results' = filtered
          /\ ReturnOk
          /\ IF filtered = {}
             THEN UNCHANGED displayed
             ELSE \E sorted \in SortedBy(searchArgs.sortBy, filtered) :
                     displayed' = IF searchArgs.limit > 0 /\ Len(sorted) > searchArgs.limit
                                  THEN SubSeq(sorted, 1, searchArgs.limit) ELSE sorted

SearchNext ==
    \/ SearchTypes
    \/ SearchPrices
    \/ SearchSelect

SearchSpec == SearchInit /\ [][SearchNext]_vars

\* ------------------------------------------------------- search and recover
DiscoveryInit == RecoverInit \/ SearchInit

DiscoveryNext == RecoverNext \/ SearchNext

DiscoverySpec == DiscoveryInit /\ [][DiscoveryNext]_vars

\* ---------------------------------------------------------------------- rebid
\* the prices given on the command line
PriceStrings == {"0.10", "0", "-1", "abc", "", "NaN", "+Inf", "1e999"}
\* strconv.ParseFloat(s, 64): the value in cents, or NaN or an infinity, and
\* whether an error is returned (a syntax error, or a range error with Inf)
ParseFloat(s) ==
    CASE s = "0.10"  -> [err |-> FALSE, nan |-> FALSE, inf |-> FALSE, cents |-> 10]
      [] s = "0"     -> [err |-> FALSE, nan |-> FALSE, inf |-> FALSE, cents |-> 0]
      [] s = "-1"    -> [err |-> FALSE, nan |-> FALSE, inf |-> FALSE, cents |-> -100]
      [] s = "NaN"   -> [err |-> FALSE, nan |-> TRUE, inf |-> FALSE, cents |-> 0]
      [] s = "+Inf"  -> [err |-> FALSE, nan |-> FALSE, inf |-> TRUE, cents |-> 0]
      [] s = "1e999" -> [err |-> TRUE, nan |-> FALSE, inf |-> TRUE, cents |-> 0]
      [] OTHER       -> [err |-> TRUE, nan |-> FALSE, inf |-> FALSE, cents |-> 0]
\* price <= 0 in float64: false for NaN and for +Inf
LeqZero(v) == ~v.nan /\ ~v.inf /\ v.cents <= 0

\* the ids named on the command line: the request, or one that does not exist
RebidIds == {"sir-old", "sir-gone"}
\* the kinds of spot request
RequestTypes == {"one-time", "persistent"}

RebidInit ==
    /\ cmd = "rebid"
    /\ cancelled = FALSE
    /\ \E i \in RebidIds, p \in PriceStrings : rebidArgs = [id |-> i, newPrice |-> p]
    /\ \E st \in {"open", "active"}, t \in RequestTypes, ud \in {"", "ud"} :
          requests = [r \in ReqIds |->
                         IF r = "sir-old"
                         THEN [state |-> st, price |-> "0.05", type |-> t,
                               spec |-> [imageId |-> "ami", instanceType |-> "small", userData |-> ud]]
                         ELSE NoRequest]
    /\ old = NoRequest
    /\ pc = "RebidValidate"
    /\ result = "none"
    /\ trace = <<>>
    /\ fails = {}
    /\ ResizeIdle
    /\ MoveIdle
    /\ StartIdle
    /\ PollIdle
    /\ RecoverIdle
    /\ SearchIdle
    /\ ResolveIdle

\* what a step of rebid leaves alone
notRebid == <<cloud, locals, pre, cmd, cancelled, resolveVars, searchVars, moveVars, startVars, pollVars, recoverVars,
              rebidArgs>>

\* 1. the price must parse and must not be <= 0
RebidValidate ==
    /\ pc = "RebidValidate"
    /\ UNCHANGED <<notRebid, requests, old, trace>>
    /\ LET price == ParseFloat(rebidArgs.newPrice)
       IN IF price.err \/ LeqZero(price)
          THEN ReturnErr("InvalidPrice")
          ELSE pc' = "RebidDescribe" /\ UNCHANGED <<result, fails>>

\* 2. DescribeSpotInstanceRequests of the request
RebidDescribe ==
    /\ pc = "RebidDescribe"
    /\ UNCHANGED <<notRebid, requests>>
    /\ \E ok \in CallOutcomes :
          /\ Log("DescribeSpotInstanceRequests", rebidArgs.id, -1, 0, ok)
          /\ IF ~ok
             THEN ReturnErr("DescribeSpotInstanceRequests") /\ UNCHANGED old
             ELSE IF rebidArgs.id \notin ReqIds \/ requests[rebidArgs.id].state = "absent"
             THEN ReturnErr("NotFound") /\ UNCHANGED old
             ELSE /\ old' = requests[rebidArgs.id]
                  /\ pc' = "RebidCancel"
                  /\ UNCHANGED <<result, fails>>

\* 3. CancelSpotInstanceRequests of the old request
RebidCancel ==
    /\ pc = "RebidCancel"
    /\ UNCHANGED <<notRebid, old>>
    /\ \E ok \in CallOutcomes :
          /\ Log("CancelSpotInstanceRequests", rebidArgs.id, -1, 0, ok)
          /\ IF ok
             THEN /\ requests' = [requests EXCEPT ![rebidArgs.id].state = "cancelled"]
                  /\ pc' = "RebidRequest"
                  /\ UNCHANGED <<result, fails>>
             ELSE /\ ReturnErr("CancelSpotInstanceRequests")
                  /\ UNCHANGED requests

\* toLaunchSpec: the image, the instance type and the other fields it copies;
\* the user data of the old launch specification is not among them
toLaunchSpec(from) ==
    [imageId |-> from.imageId, instanceType |-> from.instanceType, userData |-> ""]

\* the outcomes of RequestSpotInstances: the service takes a decimal price only
RequestOutcomes ==
    LET price == ParseFloat(rebidArgs.newPrice)
    IN IF price.nan \/ price.inf THEN {FALSE} ELSE CallOutcomes

\* 4. RequestSpotInstances with the new price and the old type
RebidRequest ==
    /\ pc = "RebidRequest"
    /\ UNCHANGED <<notRebid, old>>
    /\ \E ok \in RequestOutcomes :
          /\ Log("RequestSpotInstances", "sir-new", -1, 0, ok)
          /\ IF ok
             THEN /\ requests' = [requests EXCEPT !["sir-new"] =
                                     [state |-> "open", price |-> rebidArgs.newPrice,
                                      type |-> old.type, spec |-> toLaunchSpec(old.spec)]]
                  /\ ReturnOk
                  /\ UNCHANGED fails
             ELSE /\ ReturnErr("RequestSpotInstances")
                  /\ UNCHANGED requests

RebidNext ==
    \/ RebidValidate
    \/ RebidDescribe
    \/ RebidCancel
    \/ RebidRequest

RebidSpec == RebidInit /\ [][RebidNext]_vars

\* -------------------------------------------------------------- resolveVolume
\* the Name tags volumes carry
VolumeNames == {<<"d", "a", "t", "a">>, <<"t", "m", "p">>, <<"v", "o", "l">>}
\* the references given on the command line: ids of volumes that exist or not,
\* and names
VolumeRefs == VolumeIds \cup {<<"v", "o", "l", "-", "9">>} \cup VolumeNames
\* strings.HasPrefix(s, prefix)
HasPrefix(s, prefix) == Len(s) >= Len(prefix) /\ SubSeq(s, 1, Len(prefix)) = prefix

ResolveInit ==
    /\ cmd = "resolve"
    /\ cancelled = FALSE
    /\ nameOrID \in VolumeRefs
    /\ nameTags \in [VolumeIds -> VolumeNames \cup {<<>>}]
    /\ resolved = <<>>
    /\ pc = "ResolveCheck"
    /\ result = "none"
    /\ trace = <<>>
    /\ fails = {}
    /\ ResizeIdle
    /\ MoveIdle
    /\ StartIdle
    /\ PollIdle
    /\ RecoverIdle
    /\ SearchIdle
    /\ RebidIdle

\* what a step of resolveVolume leaves alone
notResolve == <<cloud, locals, pre, cmd, cancelled, rebidVars, searchVars, moveVars, startVars, pollVars,
                recoverVars, nameOrID, nameTags>>

\* 1. a reference that begins with "vol-" is returned as it is
ResolveCheck ==
    /\ pc = "ResolveCheck"
    /\ UNCHANGED <<notResolve, trace, fails>>
    /\ IF HasPrefix(nameOrID, <<"v", "o", "l", "-">>)
       THEN resolved' = nameOrID /\ ReturnOk
       ELSE pc' = "ResolveDescribe" /\ UNCHANGED <<resolved, result>>

\* a lookup that returns the first volume of the name when there are several
ResolveDescribeTakesFirst ==
    /\ pc = "ResolveDescribe"
    /\ UNCHANGED notResolve
    /\ \E ok \in CallOutcomes :
          /\ Log("DescribeVolumes", "tag:Name", -1, 0, ok)
          /\ LET found == {v \in VolumeIds : nameTags[v] = nameOrID}
             IN IF ~ok THEN ReturnErr("DescribeVolumes") /\ UNCHANGED resolved
                ELSE IF found = {} THEN ReturnErr("NoVolumeFound") /\ UNCHANGED resolved
                ELSE /\ \E v \in found : resolved' = v
                     /\ ReturnOk
                     /\ UNCHANGED fails

\* 2. DescribeVolumes filtered by tag:Name: one volume is the answer, none or
\* several are an error
ResolveDescribe ==
    /\ pc = "ResolveDescribe"
    /\ UNCHANGED notResolve
    /\ \E ok \in CallOutcomes :
          /\ Log("DescribeVolumes", "tag:Name", -1, 0, ok)
          /\ LET found == {v \in VolumeIds : nameTags[v] = nameOrID}
             IN IF ~ok THEN ReturnErr("DescribeVolumes") /\ UNCHANGED resolved
                ELSE IF Cardinality(found) = 0 THEN ReturnErr("NoVolumeFound") /\ UNCHANGED resolved
                ELSE IF Cardinality(found) > 1 THEN ReturnErr("MultipleVolumes") /\ UNCHANGED resolved
                ELSE /\ \E v \in found : resolved' = v
                     /\ ReturnOk
                     /\ UNCHANGED fails

ResolveNext ==
    \/ ResolveCheck
    \/ ResolveDescribe

ResolveSpec == ResolveInit /\ [][ResolveNext]_vars

\* ------------------------------------------------- every command, fairly
\* the original's volumes sit at the device paths numbered like them (which
\* path a volume has changes no wait)
PlainDevices == \A v \in Vols : volAtt[v].inst = "orig" => volAtt[v].dev = v

\* one invocation of any of the commands
FairInit ==
    \/ Init /\ PlainDevices
    \/ MoveInit
    \/ StartInit
    \/ PollInit
    \/ RecoverInit

FairNext ==
    \/ RecoverNext
    \/ MoveNext
    \/ StartNext
    \/ PollNext

\* every control-plane call, wait and sleep returns: a command that can take a
\* step takes one
FairSpec == FairInit /\ [][FairNext]_vars /\ WF_vars(FairNext)

\* ------------------------------------------------------------ cancellation
\* the positions at which resize or move is blocked in a waiter or a poll, and
\* the positions inside the poll loop
BlockingWaits ==
    {"WaitStopped", "WaitRunning", "SpotWaitStopped", "WaitNewRunning", "WaitNewStopped",
     "PollDetached", "WaitTerminated", "PollAttached", "WaitNewStarted",
     "PollSourceSnapshot", "PollTargetSnapshot", "PollNewVolume",
     "PollCheckDeadline", "PollQuery", "PollSleep"}

\* the caller's context is cancelled while the command waits: from then on every
\* call made with ctx returns the context's error
Cancel ==
    /\ ~cancelled
    /\ pc \in BlockingWaits
    /\ pc \in {"PollDetached", "PollAttached"} => idx <= Len(extraVolumes)
    /\ cancelled' = TRUE
    /\ trace' = Append(trace, Entry("Cancel", "ctx", -1, 0, TRUE))
    /\ UNCHANGED <<cloud, locals, pre, cmd, resolveVars, rebidVars, searchVars, moveVars, startVars, pollVars, recoverVars, pc, result, fails>>

CancelInit ==
    \/ Init /\ PlainDevices
    \/ MoveInit
    \/ PollInit

\* the steps of the command itself
CommandNext ==
    \/ Next
    \/ MoveNext
    \/ PollNext

CancelNext ==
    \/ CommandNext
    \/ Cancel

\* the command keeps running (every call returns); the signal may never come
CancelSpec == CancelInit /\ [][CancelNext]_vars /\ WF_vars(CommandNext)

\* ------------------------------------------------------ reading the trace
TraceIdx == 1..Len(trace)
Mutating(i) == trace[i].op \in MutatingOps
\* entry i is the successful wait that saw the replacement running
SawNewRunning(i) == trace[i].op = "WaitRunning" /\ trace[i].inst = "new" /\ trace[i].ok
\* entry i is the successful launch of the replacement
Launched(i) == trace[i].op = "RunInstances" /\ trace[i].inst = "new" /\ trace[i].ok
\* the replacement was launched and then seen running before entry i
ConfirmedBefore(i) == \E j, k \in 1..(i - 1) : j < k /\ Launched(j) /\ SawNewRunning(k)
Confirmed == ConfirmedBefore(Len(trace) + 1)
\* the invocation took the replace-and-migrate path
OnSpotPath == spotReqId /\ currentType # newType
\* the invocation took the in-place path
OnDemandPath == currentType # "none" /\ ~spotReqId /\ currentType # newType
NoMutatingCall == \A i \in TraceIdx : ~Mutating(i)
NonRoot(vols) == {a \in vols : a[2] # RootDeviceName}

\* -------------------------------------------------------------------- C1
\* C1: during a spot resize no mutating call (stop, cancel, detach,
\* terminate) is issued against the original, its market request or its
\* volumes before the replacement has been launched and seen running.
C1_OriginalUntouchedBeforeConfirm ==
    OnSpotPath =>
        \A i \in TraceIdx : (Mutating(i) /\ trace[i].inst = "orig") => ConfirmedBefore(i)

\* -------------------------------------------------------------------- C2
\* C2: a spot resize that fails at the replacement launch or while waiting
\* for the replacement to run leaves the original's lifecycle state, market
\* request and attached volumes as they were before the attempt.
C2_FailedLaunchLeavesOriginal ==
    (pc = "Done" /\ result = "err" /\ fails \cap {"RunInstances", "WaitNewRunning"} # {}) =>
        /\ instState["orig"] = pre.state
        /\ sir["orig"] = pre.sir
        /\ AttachedTo("orig") = pre.vols

\* -------------------------------------------------------------------- C3
\* C3: in every run of a spot resize the cancel of the original's market
\* request is issued only after the replacement was created and seen
\* running, and no run stands at the cancel call before that.
C3_CancelAfterConfirm ==
    /\ \A i \in TraceIdx : trace[i].op = "CancelSpotInstanceRequests" => ConfirmedBefore(i)
    /\ pc = "CancelSpotInstanceRequests" => Confirmed
    /\ sir["orig"] = "cancelled" => instState["new"] # "absent"

C3_Witness ==
    \E i \in TraceIdx : trace[i].op = "CancelSpotInstanceRequests" /\ trace[i].ok

\* -------------------------------------------------------------------- C4
\* C4: resize to the profile the instance already has returns success and
\* issues no mutating call, whatever the market mode and lifecycle state.
C4_SameProfileNoOp ==
    (pre.state # "absent" /\ pre.type = newType) =>
        /\ NoMutatingCall
        /\ instState["new"] = "absent"
        /\ Snapshot = pre
        /\ (pc = "Done" /\ "DescribeInstances" \notin fails) => result = "ok"

C4_Witness ==
    /\ pc = "Done" /\ result = "ok"
    /\ currentType = newType
    /\ spotReqId
    /\ state = "shutting-down"

\* -------------------------------------------------------------------- C5
\* C5: a spot resize in which every call succeeds ends with the original
\* terminated, its market request cancelled, every non-root volume attached
\* to the replacement at its old device path, and the replacement running
\* with the target profile.
C5_SpotResizeSuccess ==
    (pc = "Done" /\ result = "ok" /\ OnSpotPath /\ fails = {}) =>
        /\ instState["orig"] = "terminated"
        /\ sir["orig"] = "cancelled"
        /\ \A a \in NonRoot(pre.vols) :
              /\ volAtt[a[1]] = [inst |-> "new", dev |-> a[2]]
              /\ volState[a[1]] = "in-use"
        /\ instState["new"] = "running"
        /\ instType["new"] = newType

C5_Witness ==
    /\ pc = "Done" /\ result = "ok" /\ OnSpotPath /\ fails = {}
    /\ Cardinality(NonRoot(pre.vols)) >= 2
    /\ \E a \in NonRoot(pre.vols) : a[1] # a[2]

\* -------------------------------------------------------------------- C6
\* the calls and waits of the in-place path, in the order of the code
InPlaceOrder == <<"StopInstances", "WaitStopped", "ModifyInstanceType", "StartInstances", "WaitRunning">>
\* the trace without the closing DNS upsert
InstanceTrace == SelectSeq(trace, LAMBDA e : e.op # "ChangeResourceRecordSets")

\* C6: an on-demand resize of a running instance to another profile issues
\* stop, wait-stopped, profile mutation, start, wait-running in this order;
\* the mutation is never issued before the instance was seen stopped, and on
\* success the instance runs with the target profile.
C6_InPlaceOrder ==
    (OnDemandPath /\ state = "running") =>
        /\ Len(InstanceTrace) <= Len(InPlaceOrder)
        /\ \A i \in 1..Len(InstanceTrace) :
              /\ InstanceTrace[i].op = InPlaceOrder[i]
              /\ InstanceTrace[i].inst = "orig"
              /\ i < Len(InstanceTrace) => InstanceTrace[i].ok
        /\ \A i \in TraceIdx : trace[i].op = "ModifyInstanceType" =>
              \E j \in 1..(i - 1) : trace[j].op = "WaitStopped" /\ trace[j].inst = "orig" /\ trace[j].ok
        /\ result = "ok" =>
              /\ Len(InstanceTrace) = Len(InPlaceOrder)
              /\ instState["orig"] = "running"
              /\ instType["orig"] = newType

C6_Witness ==
    /\ OnDemandPath /\ state = "running"
    /\ pc = "Done" /\ result = "ok"
    /\ pre.type = "small" /\ instType["orig"] = "large"

\* -------------------------------------------------------------------- C7
\* the positions of the in-place path
InPlacePcs == {"CheckState", "StopInstances", "WaitStopped", "ModifyInstanceAttribute",
               "StartInstances", "WaitRunning", "UpdateDNS"}

\* C7: the in-place profile mutation is never issued against an instance
\* that has a market request; such an instance, given another target
\* profile, is always resized by replace-and-migrate.
C7_NoInPlaceForSpot ==
    /\ \A i \in TraceIdx : trace[i].op = "ModifyInstanceType" =>
          /\ trace[i].inst = "orig"
          /\ pre.sir = "none"
    /\ pre.sir # "none" => pc \notin InPlacePcs
    /\ pre.sir # "none" => instType["orig"] = pre.type

C7_Witness ==
    /\ pre.sir = "active"
    /\ pre.type # newType
    /\ pc = "Done" /\ result = "ok"
    /\ instType["new"] = newType

\* -------------------------------------------------------------------- C8
\* the steps after the capacity confirmation whose failure returns the error
PostCheckpointFatal == {"StopNew", "WaitNewStopped", "CancelSpotInstanceRequests", "DetachVolume",
                        "PollDetached", "TerminateInstances", "WaitTerminated", "StartNew",
                        "WaitNewStarted"}
\* every step after the capacity confirmation
PostCheckpointSteps == PostCheckpointFatal \cup {"PushUserData", "AttachVolume", "PollAttached", "UpdateDNS"}
\* a failed post-checkpoint step outside the set ok aborts, one inside does not
AbortsExactlyOutside(ok) ==
    Confirmed =>
        /\ ((fails \cap PostCheckpointSteps) \ ok # {}) => (pc = "Done" /\ result = "err")
        /\ result = "err" => ((fails \cap PostCheckpointSteps) \ ok # {})

\* C8 as stated: after the capacity confirmation only volume-attachment and
\* DNS-update failures do not abort the resize; any other failure aborts it.
C8_OnlyAttachAndDNSNonFatal ==
    AbortsExactlyOutside({"AttachVolume", "PollAttached", "UpdateDNS"})

\* C8 amended: after the capacity confirmation only volume-attachment,
\* DNS-update and user_data-push failures do not abort the resize; any other
\* failure aborts it with an error.
C8_NonFatalSteps ==
    AbortsExactlyOutside({"AttachVolume", "PollAttached", "UpdateDNS", "PushUserData"})

C8_Witness ==
    /\ pc = "Done" /\ result = "ok"
    /\ {"AttachVolume", "PollAttached", "UpdateDNS", "PushUserData"} \subseteq fails

\* -------------------------------------------------------------------- C9
\* entry i is a failed attach
FailedAttach(i) == trace[i].op = "AttachVolume" /\ ~trace[i].ok

\* C9: when the attach of one migrated volume fails, the resize still
\* attempts the attach of every remaining volume, still issues the final
\* start, and returns success when that start and its wait succeed.
C9_AttachFailureContinues ==
    ((\E i \in TraceIdx : FailedAttach(i)) /\ pc \notin {"AttachVolume", "PollAttached", "StartNew"}) =>
        /\ \A k \in 1..Len(extraVolumes) :
              \E i \in TraceIdx : /\ trace[i].op = "AttachVolume"
                                  /\ trace[i].vol = extraVolumes[k].VolumeID
                                  /\ trace[i].dev = extraVolumes[k].Device
        /\ \E i \in TraceIdx : trace[i].op = "StartInstances" /\ trace[i].inst = "new"
        /\ pc = "Done" =>
              (result = "ok" <=>
                  /\ \E i \in TraceIdx : trace[i].op = "StartInstances" /\ trace[i].inst = "new" /\ trace[i].ok
                  /\ \E i \in TraceIdx : trace[i].op = "WaitRunning" /\ trace[i].inst = "new"
                                         /\ trace[i].ok /\ ConfirmedBefore(i))

C9_Witness ==
    /\ pc = "Done" /\ result = "ok"
    /\ Len(extraVolumes) >= 2
    /\ \E i, j \in TraceIdx :
          /\ i < j
          /\ FailedAttach(i)
          /\ trace[j].op = "AttachVolume" /\ trace[j].ok

\* ------------------------------------------------------------------- C10
\* C10: resize of an instance that does not exist, or that is stopping,
\* shutting-down or terminated and has another target profile, returns an
\* error at once without any mutating call, on both paths.
C10_RejectsBadState ==
    (\/ pre.state = "absent"
     \/ pre.state \in {"stopping", "shutting-down", "terminated"} /\ pre.type # newType) =>
        /\ trace = <<>>
        /\ Snapshot = pre
        /\ pc = "Done" => result = "err"
        /\ pc \in {"Describe", "CheckState", "SpotCheckState", "Done"}

C10_Witness ==
    /\ pc = "Done" /\ result = "err"
    /\ pre.state = "shutting-down"
    /\ pre.sir = "active"
    /\ "InvalidState" \in fails

\* ------------------------------------------------------- volume move claims
MoveDone == cmd = "move" /\ pc = "Done"
MoveSucceeded == MoveDone /\ result = "ok"
MoveFailed == MoveDone /\ result = "err"
\* the positions of the trace that hold the call op on target
Calls(op, target) == {i \in DOMAIN trace : trace[i].op = op /\ trace[i].inst = target}
\* the call op on target succeeded before position i
ObservedBefore(op, target, i) == \E j \in Calls(op, target) : j < i /\ trace[j].ok
Deletes == {i \in DOMAIN trace : trace[i].op \in {"DeleteSnapshot", "DeleteVolume"}}
\* the label under which a failing call or poll of the move is returned
Stage(e) ==
    IF e.op = "pollSnapshotState"
    THEN (IF e.inst = "src" THEN "PollSourceSnapshot" ELSE "PollTargetSnapshot")
    ELSE IF e.op = "PollVolumeState" THEN "PollNewVolume" ELSE e.op

\* C11: a successful move of a volume with size S, performance class P (type,
\* IOPS, throughput) and tag set T to region R2 leaves a new volume in R2 with
\* size S, class P and tags T, whose identity differs from the source's
C11_MovePreservesAttributes ==
    MoveSucceeded =>
        /\ newVol.exists
        /\ AZRegion(newVol.az) = moveArgs.targetRegion
        /\ newVol.size = srcVolume.size
        /\ <<newVol.type, newVol.iops, newVol.throughput>> =
              <<srcVolume.type, srcVolume.iops, srcVolume.throughput>>
        /\ newVol.tags = srcVolume.tags
        /\ newVol.id # srcVolume.id
C11_Witness ==
    /\ MoveSucceeded
    /\ srcVolume.iops = 6000
    /\ Cardinality(srcVolume.tags) = 2
    /\ newVol.az = "us-west-2b"

\* C12: the snapshot copy is issued only after the source snapshot was observed
\* completed, the volume is created only after the copied snapshot was observed
\* completed, and a snapshot is deleted only after the new volume was observed
\* available
C12_MoveStepOrder ==
    cmd = "move" =>
        /\ \A i \in Calls("CopySnapshot", "dst") : ObservedBefore("pollSnapshotState", "src", i)
        /\ \A i \in Calls("CreateVolume", "newVol") : ObservedBefore("pollSnapshotState", "dst", i)
        /\ \A i \in Deletes : ObservedBefore("PollVolumeState", "newVol", i)
C12_Witness ==
    /\ cmd = "move"
    /\ Calls("CopySnapshot", "dst") # {}
    /\ Calls("CreateVolume", "newVol") # {}
    /\ Cardinality(Deletes) = 2

\* C13: when a step or poll of the move fails, the move returns an error that
\* names that stage, the failing call is the last one issued, and no snapshot
\* or volume is deleted, whatever the cleanup flag says
C13_MoveFailureAborts ==
    MoveFailed =>
        /\ Cardinality(fails) = 1
        /\ \A i \in DOMAIN trace : ~trace[i].ok => i = Len(trace) /\ fails = {Stage(trace[i])}
        /\ Deletes = {}
        /\ \A k \in DOMAIN snaps : snaps[k] # "deleted"
C13_Witness ==
    /\ MoveFailed
    /\ moveArgs.cleanup
    /\ fails = {"PollNewVolume"}
    /\ newVol.exists
    /\ snaps = [k \in {"src", "dst"} |-> "completed"]

\* C14 as stated: a successful move with cleanup leaves the new volume available
\* in the target zone and both snapshots deleted; without cleanup no delete is
\* issued and both snapshots remain
C14_CleanupDeletesBoth ==
    MoveSucceeded =>
        /\ newVol.state = "available" /\ newVol.az = TargetAZ
        /\ IF moveArgs.cleanup
           THEN \A k \in DOMAIN snaps : snaps[k] = "deleted"
           ELSE Deletes = {} /\ \A k \in DOMAIN snaps : snaps[k] = "completed"

\* C14 amended: a successful move with cleanup leaves the new volume available
\* in the target zone, has issued one delete for each snapshot, and each
\* snapshot is deleted unless its delete call failed (a warning, the move still
\* succeeds); without cleanup no delete is issued and both snapshots remain
C14_CleanupDeletesUnlessDeleteFails ==
    /\ MoveSucceeded =>
        /\ newVol.state = "available" /\ newVol.az = TargetAZ
        /\ IF moveArgs.cleanup
           THEN /\ Cardinality(Calls("DeleteSnapshot", "src")) = 1
                /\ Cardinality(Calls("DeleteSnapshot", "dst")) = 1
                /\ (snaps["src"] = "deleted") = ("DeleteSourceSnapshot" \notin fails)
                /\ (snaps["dst"] = "deleted") = ("DeleteTargetSnapshot" \notin fails)
           ELSE Deletes = {} /\ \A k \in DOMAIN snaps : snaps[k] = "completed"
    /\ (MoveDone /\ Deletes # {}) => result = "ok"
C14_Witness ==
    /\ MoveSucceeded
    /\ moveArgs.cleanup
    /\ fails = {"DeleteSourceSnapshot"}
    /\ snaps = [k \in {"src", "dst"} |-> IF k = "src" THEN "completed" ELSE "deleted"]
C14_WitnessNoCleanup ==
    MoveSucceeded /\ ~moveArgs.cleanup

\* ------------------------------------------------------- start retry claims
Starting == cmd \in {"start", "restart"}
LastStartErr == startErrs[Len(startErrs)]

\* C15: the start call is attempted at most 6 times; an attempt is followed by
\* another, after the fixed delay, only when it failed with the transient
\* IncorrectSpotRequestState error; the first success ends the loop with
\* success, and the first other error or the sixth failure is returned at once
C15_StartRetry ==
    Starting =>
        /\ Len(startErrs) <= MaxStartAttempts
        /\ \A i \in 1..(Len(startErrs) - 1) : startErrs[i] = Transient
        /\ clock = StartRetryDelay * attempts
        /\ Len(startErrs) \in {attempts, attempts + 1}
        /\ pc = "StartLoop" => Len(startErrs) = attempts
        /\ startErrs # <<>> =>
              CASE LastStartErr = "ok" ->
                      /\ "StartInstances" \notin fails
                      /\ pc \in {AfterStartLoop, "Done"}
                      /\ (cmd = "start" /\ pc = "Done") => result = "ok"
                [] LastStartErr = "other" \/ Len(startErrs) = MaxStartAttempts ->
                      pc = "Done" /\ result = "err" /\ "StartInstances" \in fails
                [] OTHER ->
                      pc \in {"StartSleep", "StartLoop"} /\ result = "none"
C15_Witness ==
    /\ cmd = "start"
    /\ pc = "Done"
    /\ Len(startErrs) = MaxStartAttempts
    /\ LastStartErr = Transient
    /\ clock = 50

\* --------------------------------------------------------------- poll claims
Polling == cmd = "poll"
LastObserved == observed[Len(observed)]
\* the positions of observed at which the snapshot was seen in state error
SawError == {i \in DOMAIN observed : observed[i].res = "found" /\ observed[i].state = "error"}

\* C16: a poll returns success only when one of its own queries saw the target
\* state; a snapshot poll whose query sees state error fails at that query,
\* without waiting for the deadline and without another query, and its error
\* carries the provider's message when there is one
C16_PollOutcomes ==
    Polling =>
        /\ result = "ok" =>
              /\ observed # <<>>
              /\ LastObserved.res = "found" /\ LastObserved.state = pollArgs.desired
        /\ pollArgs.kind = "snapshot" =>
              \A i \in SawError :
                 /\ i = Len(observed)
                 /\ pc = "Done" /\ result = "err"
                 /\ pollErr = [kind |-> "failed", id |-> pollArgs.id, msg |-> observed[i].msg]
                 /\ clock = observed[i].at
C16_Witness ==
    /\ Polling
    /\ pollArgs.kind = "snapshot"
    /\ Len(observed) = 2
    /\ SawError = {2}
    /\ pollErr.kind = "failed" /\ pollErr.msg = "disk failure"
    /\ clock < deadline
C16_WitnessSuccess ==
    Polling /\ result = "ok" /\ Len(observed) = 3

\* C18 as stated: the error of a poll that timed out carries the last state
\* the poll observed
C18_TimeoutCarriesLastState ==
    (Polling /\ pollErr.kind = "timeout") =>
        /\ "state" \in DOMAIN pollErr
        /\ observed # <<>> => pollErr.state = LastObserved.state

\* C18 amended: the error of a poll that timed out carries the resource's id
\* and the target state, and nothing of what the poll observed
C18_TimeoutCarriesTarget ==
    (Polling /\ pollErr.kind = "timeout") =>
        /\ pc = "Done" /\ result = "err"
        /\ clock > deadline
        /\ pollErr = [kind |-> "timeout", id |-> pollArgs.id, desired |-> pollArgs.desired]
C18_Witness ==
    /\ Polling
    /\ pollErr.kind = "timeout"
    /\ Len(observed) = 2
    /\ LastObserved.state = "creating"

\* ------------------------------------------------------------ recover claims
Recovering == cmd = "recover"
\* recover has called resizeInstance
HandedToResize == Recovering /\ recArgs.autoYes /\ chosen # NoOffer

\* C20: every offer recover displays, suggests or picks is in the zone of the
\* instance being recovered, and the type passed to resize is the type of such
\* an offer
C20_CandidatesInInstanceZone ==
    Recovering =>
        /\ \A i \in DOMAIN displayed : displayed[i].az = instAZ
        /\ chosen # NoOffer =>
              /\ chosen.az = instAZ
              /\ \E sp \in history : sp.itype = chosen.itype /\ sp.az = instAZ /\ sp.price = chosen.price
        /\ HandedToResize => newType = chosen.itype
C20_Witness ==
    /\ HandedToResize
    /\ instAZ = "us-east-2a"
    /\ \E sp \in history : sp.az = "us-east-2b"
    /\ Len(displayed) = 2
    /\ pc = "Done" /\ result = "ok" /\ instType["new"] = chosen.itype

\* ------------------------------------------------------- termination claims
\* the queries of a poll that were issued after its deadline
LateQueries == {i \in DOMAIN observed : observed[i].at > deadline}
\* a poll that ended without seeing its target state, a failed snapshot or a
\* failed query
NeverReached ==
    /\ Polling /\ pc = "Done"
    /\ \A i \in DOMAIN observed :
          /\ observed[i].res # "err"
          /\ ~(observed[i].res = "found" /\ observed[i].state \in {pollArgs.desired, "error"})

\* C17: every wait is bounded: a poll whose target state is never reached
\* returns the timeout error once its deadline has passed, having issued at most
\* one query after the deadline; the start loop makes at most 6 calls; and
\* every invocation of every command returns, given that each call returns
C17_WaitsBounded ==
    /\ [](NeverReached => (pollErr.kind = "timeout" /\ result = "err" /\ clock > deadline))
    /\ [](Polling => Cardinality(LateQueries) <= 1)
    /\ [](Starting => Len(startErrs) <= MaxStartAttempts)
    /\ <>(pc = "Done")
C17_Witness ==
    /\ NeverReached
    /\ Len(observed) = 3
    /\ LateQueries = {3}

\* ------------------------------------------------------- cancellation claims
\* the position of the signal in the trace, 0 when it has not fired
CancelIdx == IF Calls("Cancel", "ctx") = {} THEN 0 ELSE CHOOSE i \in Calls("Cancel", "ctx") : TRUE
AfterCancel == {i \in DOMAIN trace : CancelIdx # 0 /\ i > CancelIdx}
\* the calls that would undo or redo what the command has done so far
CompensatingOps == {"DeleteSnapshot", "DeleteVolume", "TerminateInstances", "RunInstances"}
AllWaitOps == WaitOps \cup {"pollSnapshotState"}

\* C19: when the context is cancelled while resize or move is in a blocking
\* wait, that wait fails (a poll at its next query or deadline check), the
\* command returns (with the error), and after the
\* signal no call changes the control plane: no snapshot or volume is deleted,
\* no instance is terminated, no market request is created again
C19_CancelUnwinds ==
    /\ [](\A i \in AfterCancel :
             /\ ~trace[i].ok
             /\ trace[i].op \notin CompensatingOps
             /\ i = CancelIdx + 1 => trace[i].op \in AllWaitOps)
    /\ []((cancelled /\ pc = "Done") =>
             /\ result = "err"
             /\ IF Polling THEN pollErr.kind \in {"query", "timeout"} ELSE AfterCancel # {})
    /\ [][cancelled => UNCHANGED <<cloud, srcVolume, snaps, newVol>>]_vars
    /\ (cancelled ~> pc = "Done")
C19_Witness ==
    /\ cancelled /\ pc = "Done"
    /\ cmd = "resize"
    /\ instState["new"] = "stopped" /\ sir["new"] = "active"
    /\ \E i \in Calls("CancelSpotInstanceRequests", "orig") : trace[i].ok /\ i < CancelIdx
    /\ Cardinality(AfterCancel) = 1
C19_WitnessMove ==
    /\ cancelled /\ pc = "Done"
    /\ cmd = "move"
    /\ moveArgs.cleanup
    /\ snaps = [k \in {"src", "dst"} |-> "completed"]
    /\ newVol.exists

\* ------------------------------------------------------- recover and search
\* the positions of the trace at which recover called resizeInstance
ResizeCalls == Calls("resizeInstance", "orig")
\* the offers recover may pick from: the latest observation of each candidate
\* type in the zone of the instance, at or below the max price in force
Eligible ==
    {sp \in history :
        /\ sp.itype \in candidates
        /\ sp.az = instAZ
        /\ \A q \in history : (q.itype = sp.itype /\ q.az = sp.az) => q.ts <= sp.ts
        /\ EffectiveMaxPrice > 0 => sp.price <= EffectiveMaxPrice}

\* C21: with --yes recover calls resizeInstance exactly once, with the type of
\* an offer whose price is the least among the offers that passed the hardware,
\* zone and price filters; without --yes recover makes no mutating call
C21_AutoResizesCheapest ==
    Recovering =>
        /\ Cardinality(ResizeCalls) <= 1
        /\ ResizeCalls # {} =>
              /\ recArgs.autoYes
              /\ \E e \in Eligible : /\ e.itype = newType
                                      /\ \A o \in Eligible : e.price <= o.price
        /\ (pc = "Done" /\ result = "ok" /\ recArgs.autoYes /\ Eligible # {}) => ResizeCalls # {}
        /\ ~recArgs.autoYes => /\ trace = <<>>
                               /\ Snapshot = pre
                               /\ instState["new"] = "absent"
C21_Witness ==
    /\ Recovering /\ recArgs.autoYes
    /\ ResizeCalls # {}
    /\ \E e, o \in Eligible : e.price < o.price
    /\ pc = "Done" /\ result = "ok"
    /\ instState["new"] = "running" /\ instType["new"] = newType

\* the types a search from the current type must return: of the current
\* generation and the current architecture, with a GPU when the current type
\* has one, and with at least the flag, or else at least half of the current
\* type's vCPUs and memory
ExpectedCandidates ==
    LET cur == Catalog[currentType]
    IN {t \in CatalogTypes :
          /\ Catalog[t].currentGen
          /\ Catalog[t].arch = cur.arch
          /\ cur.gpu => Catalog[t].gpu
          /\ IF recArgs.minVCPUFlag > 0 THEN Catalog[t].vcpus >= recArgs.minVCPUFlag
             ELSE 2 * Catalog[t].vcpus >= cur.vcpus
          /\ IF recArgs.minMemFlag > 0 THEN Catalog[t].memMiB >= 1024 * recArgs.minMemFlag
             ELSE 2 * Catalog[t].memMiB >= cur.memMiB}

Searching == cmd = "search"
\* the types a search must look at: the positional arguments, else the types
\* of the current generation that meet the hardware flags
ExpectedTypes ==
    IF searchArgs.types # {} THEN searchArgs.types \cap CatalogTypes
    ELSE {t \in CatalogTypes :
             /\ Catalog[t].currentGen
             /\ Catalog[t].arch = searchArgs.arch
             /\ Catalog[t].vcpus >= searchArgs.minVCPU
             /\ Catalog[t].memMiB >= 1024 * searchArgs.minMem
             /\ searchArgs.gpu => Catalog[t].gpu}
\* the observations of S that no observation of the same type and zone is
\* later than
Newest(S) == {sp \in S : \A q \in S : (q.itype = sp.itype /\ q.az = sp.az) => q.ts <= sp.ts}
\* an observation as the offer it stands for
AsOffer(sp) == [itype |-> sp.itype, az |-> sp.az, price |-> sp.price]
\* the offers of the expected types in the zone asked for, before the max price
SearchPriced ==
    {AsOffer(sp) : sp \in Newest({q \in history :
                                     /\ q.itype \in ExpectedTypes
                                     /\ searchArgs.az # "" => q.az = searchArgs.az})}
\* the offers a search must end with
SearchExpected == {r \in SearchPriced : searchArgs.maxPrice > 0 => r.price <= searchArgs.maxPrice}

\* the errors a search or a recover returns before it filters: a failed call,
\* an instance that is missing or terminated
LookupFailures == {"DescribeInstances", "NotFound", "Terminated", "DescribeInstanceTypes",
                   "FetchInstanceTypes", "FetchSpotPrices", "DescribeSpotPriceHistory"}
NoLookupFailed == fails \cap LookupFailures = {}

\* C23: a search or a recover that finds no type after the hardware filter, or
\* no offer after the zone and price filters, returns nil when no call failed;
\* the search shows nothing, and the recover calls neither resizeInstance nor
\* anything that mutates, with or without --yes
C23_EmptyIsSuccess ==
    /\ Searching =>
          /\ trace = <<>>
          /\ (pc = "Done" /\ NoLookupFailed /\ SearchExpected = {}) =>
                result = "ok" /\ displayed = <<>>
    /\ Recovering =>
          /\ Eligible = {} => trace = <<>> /\ Snapshot = pre /\ instState["new"] = "absent"
          /\ (pc = "Done" /\ NoLookupFailed /\ Eligible = {}) => result = "ok" /\ chosen = NoOffer
C23_Witness ==
    /\ Recovering /\ recArgs.autoYes
    /\ pc = "Done" /\ result = "ok"
    /\ candidates # {} /\ Eligible = {}
    /\ \E sp \in history : sp.itype \in candidates /\ sp.az = instAZ
C23_WitnessNoType ==
    /\ Recovering /\ recArgs.autoYes
    /\ pc = "Done" /\ result = "ok"
    /\ currentType \in CatalogTypes /\ ExpectedCandidates = {}
    /\ history # {}
C23_WitnessSearch ==
    /\ Searching
    /\ pc = "Done" /\ result = "ok"
    /\ SearchPriced # {} /\ SearchExpected = {}

\* a search by hardware flags in one zone, without a max price, that returned nil
ZoneSearchDone ==
    /\ Searching /\ pc = "Done" /\ result = "ok"
    /\ searchArgs.types = {} /\ searchArgs.az # "" /\ searchArgs.maxPrice = 0
\* the rows shown are rows of the result, each once, and all of them unless
\* --limit cuts the table
ShowsResults ==
    /\ \A i \in DOMAIN displayed : displayed[i] \in results
    /\ Injective(displayed)
    /\ Len(displayed) = IF searchArgs.limit > 0 /\ Cardinality(results) > searchArgs.limit
                        THEN searchArgs.limit ELSE Cardinality(results)
\* the types of the catalog that meet the flags and have a price in the zone
TypesPricedInZone ==
    {t \in ExpectedTypes : \E sp \in history : sp.itype = t /\ sp.az = searchArgs.az}

C25_LatestPricePerPair ==
    (Searching /\ pc = "SearchSelect") =>
        LET asked == {sp \in history : /\ sp.itype \in candidates
                                       /\ searchArgs.az # "" => sp.az = searchArgs.az}
        IN /\ \A sp \in asked :
                 \E r \in results :
                    /\ r.itype = sp.itype /\ r.az = sp.az
                    /\ \A q \in results : (q.itype = r.itype /\ q.az = r.az) => q = r
                    /\ \E top \in asked : /\ top.itype = sp.itype /\ top.az = sp.az
                                          /\ top.price = r.price
                                          /\ \A o \in asked : (o.itype = sp.itype /\ o.az = sp.az)
                                                                 => o.ts <= top.ts
           /\ \A r \in results : \E sp \in asked : r.itype = sp.itype /\ r.az = sp.az
           /\ results = FetchSpotPrices(candidates, searchArgs.az)
C25_Witness ==
    /\ Searching /\ pc = "SearchSelect"
    /\ \E i, j \in DOMAIN arrival :
          /\ i < j
          /\ arrival[i].itype = arrival[j].itype /\ arrival[i].az = arrival[j].az
          /\ arrival[i].ts > arrival[j].ts
          /\ arrival[i].itype \in candidates
          /\ \E r \in results : r.itype = arrival[i].itype /\ r.price = arrival[i].price
    /\ Len(arrival) = 3

\* recover has filtered its offers
RecoverPlanning == {"RecDescribe", "RecDescribeType", "RecFetchTypes", "RecFetchPrices", "RecSelect"}
RecoverFiltered ==
    Recovering /\ pc \notin RecoverPlanning /\ NoLookupFailed /\ candidates # {}
\* the offers of the candidate types in the instance's zone, before the max price
RecoverPriced ==
    {AsOffer(sp) : sp \in Newest({q \in history : q.itype \in candidates /\ q.az = instAZ})}

\* C26: a search and a recover with a positive --max-price end with exactly
\* the offers priced at or below it, and with --max-price 0 with every offer
C26_MaxPriceZeroIsNoLimit ==
    /\ (Searching /\ pc = "Done" /\ result = "ok") =>
          results = {r \in SearchPriced : searchArgs.maxPrice > 0 => r.price <= searchArgs.maxPrice}
    /\ RecoverFiltered =>
          results = {r \in RecoverPriced : recArgs.maxPriceFlag > 0 => r.price <= recArgs.maxPriceFlag}

\* ------------------------------------------------------ degraded outcomes
\* a resize that ran to its end
Resized == cmd = "resize" /\ pc = "Done"
\* the steps of a resize whose failure is a warning
NonCriticalSteps == {"AttachVolume", "PollAttached", "UpdateDNS", "PushUserData"}
\* the non-critical steps that failed
Degraded == fails \cap NonCriticalSteps

\* C27: a resize whose safety-critical steps succeeded and some of whose
\* non-critical steps failed hands the failed steps to its caller in its result
C27_DegradedOutcomesReturned ==
    (Resized /\ result = "ok" /\ Degraded # {}) =>
        /\ "degraded" \in DOMAIN Returned
        /\ Returned.degraded = Degraded

\* C28: a resize whose last step, the DNS update, fails still returns nil, and
\* the instance it leaves (the original in place, the replacement on the spot
\* path) is running with the new type
C28_DNSFailureNotFatal ==
    (Resized /\ "UpdateDNS" \in fails) =>
        /\ result = "ok"
        /\ Returned.err = "nil"
        /\ LET inst == IF spotReqId THEN "new" ELSE "orig"
           IN instState[inst] = "running" /\ instType[inst] = newType
C28_Witness ==
    /\ Resized /\ "UpdateDNS" \in fails
    /\ spotReqId
    /\ instState["new"] = "running" /\ instState["orig"] = "terminated"
    /\ dns = "orig"
C28_WitnessInPlace ==
    /\ Resized /\ "UpdateDNS" \in fails
    /\ ~spotReqId
    /\ instType["orig"] = newType /\ pre.type # newType
    /\ \E i \in DOMAIN trace : trace[i].op = "ChangeResourceRecordSets" /\ ~trace[i].ok

\* ---------------------------------------------------------------------- rebid
Rebidding == cmd = "rebid"
\* the prices of PriceStrings that denote a number greater than zero
PositivePrices == {"0.10", "+Inf"}
\* the control-plane calls a rebid has made
RebidCalls == {i \in DOMAIN trace : trace[i].op \in {"DescribeSpotInstanceRequests",
                                                     "CancelSpotInstanceRequests",
                                                     "RequestSpotInstances"}}

\* C29: a rebid that returns nil has left the old request cancelled and made
\* one new request, with the new price and the type and launch specification of
\* the old request; a rebid whose price is not a number greater than zero
\* returns an error and makes no call
C29_RebidReplacesRequest ==
    Rebidding =>
        /\ (pc = "Done" /\ result = "ok") =>
              /\ requests["sir-old"].state = "cancelled"
              /\ Cardinality({i \in DOMAIN trace : trace[i].op = "RequestSpotInstances"}) = 1
              /\ requests["sir-new"].state = "open"
              /\ requests["sir-new"].price = rebidArgs.newPrice
              /\ requests["sir-new"].type = old.type
              /\ requests["sir-new"].spec = old.spec
        /\ rebidArgs.newPrice \notin PositivePrices =>
              /\ RebidCalls = {}
              /\ pc = "Done" => result = "err"
\* the part of C29 that the code keeps: on success the old request is
\* cancelled and one request is made with the new price, the old type, image
\* and instance type; a price that fails to parse or is <= 0 makes no call
RebidKeeps ==
    Rebidding =>
        /\ (pc = "Done" /\ result = "ok") =>
              /\ requests["sir-old"].state = "cancelled"
              /\ Cardinality({i \in DOMAIN trace : trace[i].op = "RequestSpotInstances"}) = 1
              /\ requests["sir-new"].state = "open"
              /\ requests["sir-new"].price = rebidArgs.newPrice
              /\ requests["sir-new"].type = old.type
              /\ requests["sir-new"].spec.imageId = old.spec.imageId
              /\ requests["sir-new"].spec.instanceType = old.spec.instanceType
        /\ rebidArgs.newPrice \notin PositivePrices \cup {"NaN"} =>
              /\ RebidCalls = {}
              /\ pc = "Done" => result = "err"
\* a rebid with the price NaN has cancelled the old request and made no new one
RebidNaNCancels ==
    /\ Rebidding /\ rebidArgs.newPrice = "NaN"
    /\ pc = "Done" /\ result = "err"
    /\ requests["sir-old"].state = "cancelled" /\ requests["sir-new"].state = "absent"

\* -------------------------------------------------------------- resolveVolume
Resolving == cmd = "resolve"
\* the reference begins with the four characters vol-
BeginsWithVol ==
    /\ Len(nameOrID) >= 4
    /\ nameOrID[1] = "v" /\ nameOrID[2] = "o" /\ nameOrID[3] = "l" /\ nameOrID[4] = "-"
\* the volumes whose Name tag is the reference
Named == {v \in DOMAIN nameTags : nameTags[v] = nameOrID}
Lookups == {i \in DOMAIN trace : trace[i].op = "DescribeVolumes"}

\* C30: a reference that begins with vol- resolves to itself and no lookup is
\* made; any other reference resolves to the one volume whose Name tag equals
\* it, and the resolution fails when no volume or several carry the name
C30_ResolveVolume ==
    (Resolving /\ pc = "Done") =>
        /\ BeginsWithVol => result = "ok" /\ resolved = nameOrID /\ Lookups = {}
        /\ (~BeginsWithVol /\ result = "ok") => Named = {resolved}
        /\ (~BeginsWithVol /\ Cardinality(Named) # 1) => result = "err" /\ resolved = <<>>
        /\ (~BeginsWithVol /\ Cardinality(Named) = 1 /\ "DescribeVolumes" \notin fails) =>
              result = "ok"
C30_Witness ==
    /\ Resolving /\ pc = "Done" /\ result = "ok"
    /\ ~BeginsWithVol
    /\ Named = {resolved}
    /\ \E v \in DOMAIN nameTags : nameTags[v] # nameOrID /\ nameTags[v] # <<>>
C30_WitnessAmbiguous ==
    /\ Resolving /\ pc = "Done" /\ result = "err"
    /\ Cardinality(Named) = 2 /\ "MultipleVolumes" \in fails
C30_WitnessId ==
    /\ Resolving /\ pc = "Done" /\ result = "ok"
    /\ BeginsWithVol /\ nameOrID \notin DOMAIN nameTags

\* ------------------------------------------------------------------- C31
\* entry i is the terminate call against the original
TerminatesOriginal(i) == trace[i].op = "TerminateInstances" /\ trace[i].inst = "orig"
\* entry i is the start call of the replacement
StartsNew(i) == trace[i].op = "StartInstances" /\ trace[i].inst = "new"
\* before entry i the volume was detached from the original and then polled
\* successfully, which before the terminate is the poll to available
DetachedBefore(vol, i) ==
    \E j, k \in 1..(i - 1) :
        /\ j < k
        /\ trace[j].op = "DetachVolume" /\ trace[j].vol = vol /\ trace[j].inst = "orig" /\ trace[j].ok
        /\ trace[k].op = "PollVolumeState" /\ trace[k].vol = vol /\ trace[k].ok
\* before entry i the original was seen terminated and the replacement was
\* seen stopped, and the replacement has not been started since
SwapWindowBefore(i) ==
    /\ \E j \in 1..(i - 1) : trace[j].op = "WaitTerminated" /\ trace[j].inst = "orig" /\ trace[j].ok
    /\ \E j \in 1..(i - 1) : trace[j].op = "WaitStopped" /\ trace[j].inst = "new" /\ trace[j].ok
    /\ \A j \in 1..(i - 1) : ~StartsNew(j)

\* C31: in a spot resize the terminate of the original is issued only after
\* every migrated volume was detached and seen available, so that none is
\* attached to the original at that call; each attach to the replacement is
\* issued only after the original was seen terminated, while the replacement
\* is stopped and before its final start.
C31_SwapOrder ==
    /\ \A i \in TraceIdx : TerminatesOriginal(i) =>
          /\ \A a \in NonRoot(pre.vols) : DetachedBefore(a[1], i)
          /\ \A v \in Vols : volAtt[v].inst = "orig" => volAtt[v].dev = RootDeviceName
    /\ pc = "TerminateInstances" =>
          \A a \in NonRoot(pre.vols) : volState[a[1]] = "available" /\ volAtt[a[1]] = NoAtt
    /\ \A i \in TraceIdx : trace[i].op = "AttachVolume" =>
          /\ trace[i].inst = "new"
          /\ SwapWindowBefore(i)
    /\ (pc = "AttachVolume" /\ idx <= Len(extraVolumes)) =>
          /\ instState["orig"] = "terminated"
          /\ instState["new"] = "stopped"

C31_Witness ==
    /\ pc = "Done" /\ result = "ok" /\ OnSpotPath
    /\ Cardinality(NonRoot(pre.vols)) >= 2
    /\ \E i, j \in TraceIdx : i < j /\ TerminatesOriginal(i) /\ trace[j].op = "AttachVolume" /\ trace[j].ok

\* ------------------------------------------------------------------- C32
\* the StartInstances calls resize issued against an instance
ResizeStarts(inst) == {i \in TraceIdx : trace[i].op = "StartInstances" /\ trace[i].inst = inst}

\* C32: a start call of resize (the start after the in-place mutation, the
\* final start of the stopped replacement) that is rejected with
\* IncorrectSpotRequestState is retried, so that the resize fails on that
\* rejection only after the retrier's bound of start calls.
C32_ResizeStartRetried ==
    (cmd = "resize" /\ result = "err" /\ Transient \in fails) =>
        \E inst \in Insts : Cardinality(ResizeStarts(inst)) = MaxStartAttempts

\* what the code does: the one start call of each path is never repeated
ResizeStartsOnce ==
    cmd = "resize" => \A inst \in Insts : Cardinality(ResizeStarts(inst)) <= 1

\* ------------------------------------------------------------------- C33
\* C33: every offer recover lists, suggests or picks is for another type than
\* the one the instance has, and with --yes recover never calls resizeInstance
\* with the type the instance already has.
C33_CandidatesAreAlternatives ==
    Recovering =>
        /\ \A i \in DOMAIN displayed : displayed[i].itype # pre.type
        /\ chosen # NoOffer => chosen.itype # pre.type
        /\ ResizeCalls # {} => newType # pre.type

\* what the code does: the type of the instance is a candidate like any other,
\* and a resize to it returns nil without a call
RecoverToSameTypeIsNoOp ==
    (Recovering /\ ResizeCalls # {} /\ newType = pre.type) =>
        /\ \A i \in TraceIdx : ~Mutating(i)
        /\ Snapshot = pre
        /\ pc = "Done" => (result = "ok" \/ "DescribeInstances" \in fails)

\* ------------------------------------------------------------------- C34
\* the (volume, device) pairs of local extraVolumes
Migrated == {<<extraVolumes[k].VolumeID, extraVolumes[k].Device>> : k \in DOMAIN extraVolumes}
\* the volumes named by the calls of one kind
VolumesOf(op) == {trace[i].vol : i \in {j \in TraceIdx : trace[j].op = op}}
\* the positions of the spot path after the volume list was built
PastGather == {"RunInstances", "WaitNewRunning", "StopNew", "WaitNewStopped", "PushUserData",
               "CancelSpotInstanceRequests", "DetachVolume", "PollDetached", "TerminateInstances",
               "WaitTerminated", "AttachVolume", "PollAttached", "StartNew", "WaitNewStarted",
               "SpotUpdateDNS"}
\* the positions after the detach loop, and after the attach loop
PastDetach == {"PollDetached", "TerminateInstances", "WaitTerminated", "AttachVolume",
               "PollAttached", "StartNew", "WaitNewStarted", "SpotUpdateDNS"}
PastAttach == {"PollAttached", "StartNew", "WaitNewStarted", "SpotUpdateDNS"}

LaunchSucceeded == \E i \in TraceIdx : Launched(i)
\* the calls that would undo a step of the spot path
UndoCalls ==
    {i \in TraceIdx :
        \/ trace[i].op \in {"TerminateInstances", "CancelSpotInstanceRequests"} /\ trace[i].inst = "new"
        \/ trace[i].op = "AttachVolume" /\ trace[i].inst = "orig"
        \/ trace[i].op = "RunInstances" /\ trace[i].inst = "orig"
        \/ trace[i].op \in {"StartInstances", "ModifyInstanceType"} /\ trace[i].inst = "orig"}
\* the volumes whose detach call succeeded
DetachedVols == {trace[i].vol : i \in {j \in TraceIdx : trace[j].op = "DetachVolume" /\ trace[j].ok}}
\* the cancel of the original's request succeeded
CancelSucceeded == \E i \in TraceIdx : trace[i].op = "CancelSpotInstanceRequests" /\ trace[i].ok

\* C35: a spot resize never rolls back: it issues no call that undoes a step,
\* and when it fails after the launch call succeeded the replacement and the
\* replacement's market request are still there, a cancelled request of the
\* original stays cancelled and a detached volume is not back in use on the
\* original.
C35_NoRollback ==
    OnSpotPath =>
        /\ UndoCalls = {}
        /\ LaunchSucceeded =>
              /\ instState["new"] \in {"pending", "running", "stopping", "stopped"}
              /\ sir["new"] = "active"
              /\ instType["new"] = newType
        /\ CancelSucceeded => sir["orig"] = "cancelled"
        /\ \A v \in DetachedVols :
              \/ volState[v] \in {"detaching", "available"}
              \/ volAtt[v].inst = "new"

C35_Witness ==
    /\ OnSpotPath /\ pc = "Done" /\ result = "err"
    /\ "WaitTerminated" \in fails
    /\ CancelSucceeded
    /\ Cardinality(DetachedVols) >= 2
    /\ instState["new"] = "stopped"
C35_WitnessEarly ==
    /\ OnSpotPath /\ pc = "Done" /\ result = "err"
    /\ "CancelSpotInstanceRequests" \in fails
    /\ sir["new"] = "active"

\* ------------------------------------------------------------------- C36
\* the in-place resize failed at the profile mutation or at the start call
InPlaceLateFailure ==
    OnDemandPath /\ pc = "Done" /\ fails \cap {"ModifyInstanceAttribute", "StartInstances"} # {}

\* C36: an on-demand resize whose profile mutation or start call fails
\* returns an error with that call as its last one: the instance stays
\* stopped, with its old profile when the mutation failed and the new one when
\* the start failed, and is never started again.
C36_InPlaceFailureLeavesStopped ==
    InPlaceLateFailure =>
        /\ result = "err"
        /\ trace # <<>>
        /\ trace[Len(trace)].op \in {"ModifyInstanceType", "StartInstances"}
        /\ ~trace[Len(trace)].ok
        /\ \A i \in 1..(Len(trace) - 1) : trace[i].ok
        /\ instState["orig"] = "stopped"
        /\ instType["orig"] = IF "ModifyInstanceAttribute" \in fails THEN pre.type ELSE newType
        /\ Cardinality(ResizeStarts("orig")) = IF "StartInstances" \in fails THEN 1 ELSE 0
        /\ instState["new"] = "absent"
        /\ dns = "orig"

C36_Witness ==
    /\ InPlaceLateFailure
    /\ "ModifyInstanceAttribute" \in fails
    /\ pre.state = "running"
C36_WitnessStart ==
    /\ InPlaceLateFailure
    /\ "StartInstances" \in fails
    /\ pre.state = "running"
    /\ instType["orig"] # pre.type

\* ------------------------------------------------------------------- C37
\* the calls that detach, modify or delete a volume
VolumeMutations == {"DetachVolume", "AttachVolume", "ModifyVolume", "DeleteVolume"}
\* the calls a move issues, each against a snapshot or the new volume
MoveCalls == {"CreateSnapshot", "pollSnapshotState", "CopySnapshot", "CreateVolume",
              "PollVolumeState", "DeleteSnapshot"}

\* C37: a move issues no call that detaches, modifies or deletes the source
\* volume: at every step, and after the move whether it succeeded or failed
\* and whether cleanup was asked for, the source volume exists in the source
\* region with the size, performance class, tags and attachment state that the
\* move read from it.
C37_SourceVolumeUntouched ==
    cmd = "move" =>
        /\ \A i \in TraceIdx : /\ trace[i].op \in MoveCalls
                               /\ trace[i].op \notin VolumeMutations
                               /\ trace[i].inst \in {"src", "dst", "newVol"}
        /\ srcVol # NoVolume =>
              /\ srcVolume = srcVol
              /\ srcVolume.exists
        /\ newVol.exists => newVol.id # srcVolume.id

C37_Witness ==
    /\ MoveSucceeded /\ moveArgs.cleanup
    /\ snaps["src"] = "deleted" /\ snaps["dst"] = "deleted"
    /\ srcVolume.state = "in-use" /\ srcVolume.tags # {}
    /\ newVol.exists
C37_WitnessFailed ==
    /\ MoveFailed
    /\ "PollNewVolume" \in fails
    /\ srcVolume.state = "in-use"

\* ------------------------------------------------------------------- C38
\* the spot path has read the user_data and got none: the read failed or the
\* original has no user_data
NoUserDataRead ==
    /\ OnSpotPath
    /\ pc \in PastGather \cup {"Done"}
    /\ "FetchUserData" \in fails \/ storedUD = "none"
    /\ fails \cap {"SpotStopInstances", "SpotWaitStopped", "InvalidState", "DescribeInstances"} = {}
\* the entries of fails that are no returned error: the warnings, and the
\* kind of a rejected start, which stands beside the step that returned it
Warnings == NonCriticalSteps \cup {"FetchUserData", "DescribeSpotInstanceRequests", Transient}

\* C38: when the user_data of the original cannot be read or is absent, the
\* spot resize goes on: it launches the replacement without user_data, never
\* pushes user_data onto the replacement, and fails only if another step fails.
C38_NoUserDataStillResizes ==
    NoUserDataRead =>
        /\ userData = ""
        /\ newLaunch.type # "none" => newLaunch.userData = "none"
        /\ \A i \in TraceIdx : trace[i].op # "ModifyUserData"
        /\ newUD = "none"
        /\ "PushUserData" \notin fails
        /\ pc = "Done" => (result = "err" <=> fails \ Warnings # {})

C38_Witness ==
    /\ NoUserDataRead /\ "FetchUserData" \in fails /\ storedUD = "good"
    /\ pc = "Done" /\ result = "ok"
    /\ instState["new"] = "running"
    /\ newLaunch.type = newType
C38_WitnessAbsent ==
    /\ NoUserDataRead /\ "FetchUserData" \notin fails /\ storedUD = "none"
    /\ pc = "Done" /\ result = "ok"
    /\ instState["new"] = "running"

\* ------------------------------------------------------------------- C39
\* the queries of the poll that succeeded with an empty list, and those that
\* returned an error
SawEmpty == {i \in DOMAIN observed : observed[i].res = "empty"}
SawQueryError == {i \in DOMAIN observed : observed[i].res = "err"}

\* C39: a poll whose query succeeds with an empty list goes on as if the
\* target state had not been reached yet: it sleeps and queries again, and it
\* ends after such a query only with the timeout error, once the deadline has
\* passed; no poll returns a not-found error.  A query that returns an error
\* ends the poll at once with that error.
C39_EmptyResultKeepsPolling ==
    Polling =>
        /\ \A i \in SawEmpty :
              i = Len(observed) =>
                 /\ pc \in {"PollSleep", "PollCheckDeadline", "PollQuery", "Done"}
                 /\ pc = "Done" => /\ result = "err"
                                   /\ pollErr = [kind |-> "timeout", id |-> pollArgs.id,
                                                 desired |-> pollArgs.desired]
                                   /\ clock > deadline
        /\ pollErr.kind \in {"none", "timeout", "query", "failed"}
        /\ pollErr.kind = "failed" => pollArgs.kind = "snapshot" /\ SawError # {}
        /\ \A i \in SawQueryError :
              /\ i = Len(observed)
              /\ pc = "Done" /\ result = "err"
              /\ pollErr = [kind |-> "query"]
              /\ clock = observed[i].at

C39_Witness ==
    /\ Polling /\ pollArgs.kind = "volume"
    /\ Len(observed) = 3
    /\ SawEmpty = {1, 2}
    /\ pc = "Done" /\ result = "ok"
C39_WitnessTimeout ==
    /\ Polling /\ pollArgs.kind = "snapshot"
    /\ Len(observed) >= 2
    /\ SawEmpty = DOMAIN observed
    /\ pc = "Done" /\ pollErr.kind = "timeout"
C39_WitnessQueryError ==
    /\ Polling
    /\ SawEmpty = {1}
    /\ SawQueryError = {2}
    /\ clock <= deadline

==============================================================================
